---- MODULE Spec2Model ----
(***************************************************************************)
(* Crawl-and-staged-refresh pipeline of routes/chat.js (staged variant):   *)
(* backgroundRefresh -> scrapeGitLabData -> scrapeAndSaveSite per source   *)
(* -> transactional promotion of the staging records, together with the    *)
(* startup trigger of server.js and the POST /refresh-data handler, and    *)
(* the read path getGitLabData.  The earlier, read-triggered routes/chat.js *)
(* (scrapeSite, direct production upserts) is modelled beside it.          *)
(*                                                                         *)
(* Strings that the code compares by prefix (URLs, hrefs) are sequences of *)
(* tokens; the tokens are chosen so that no token is a proper prefix of    *)
(* another one, which makes the token-wise prefix test the string test.    *)
(* Every await of the code is a suspension point and ends an action.       *)
(***************************************************************************)
EXTENDS Naturals, Integers, Sequences, FiniteSets, TLC

\* ------------------------------------------------------------------ bounds
\* Number of POST /refresh-data requests the environment sends.
NumManual == 1
\* Scaled-down defaults of scrapeAndSaveSite(rootUrl, source, maxPages = 50,
\* batchSize = 10): the refresh calls the crawler with these.
DefaultMaxPages == 3
DefaultBatchSize == 2
\* Largest maxPages / batchSize a direct call of the crawler is given.
MaxPagesArg == 4
BatchSizeArg == 3
\* Number of times the clock is moved forward by the staleness threshold.
MaxClockJumps == 1
\* Number of getGitLabData calls of the read-triggered variant, and the
\* scaled-down default of its scrapeSite(rootUrl, maxPages = 100).
NumReads == 2
DirectMaxPages == 2

\* --------------------------------------------------------------- constants
MaxAttempts == 3
LinkFanOut == 5
HourMs == 3600000
StaleHours == 12
MinTextLength == 100
BackoffBase == 1500
MaxTextLength == 5000

\* null for strings; a nullable value of another type is <<>> or <<v>>.
Null == "null"
None == <<>>
Some(v) == <<v>>

\* ------------------------------------------------------------------ strings
Min(a, b) == IF a < b THEN a ELSE b

\* String.prototype.startsWith on token sequences.
StartsWith(s, p) == Len(p) <= Len(s) /\ SubSeq(s, 1, Len(p)) = p

HandbookHost == "https://handbook.gitlab.com"
AboutHost == "https://about.gitlab.com"
OtherHost == "https://other.example"
\* Continues a host name: HandbookHost followed by it is the host
\* handbook.gitlab.com.example.net.
HostSuffix == ".example.net"
HostTokens == {HandbookHost, AboutHost, OtherHost, HostSuffix}

GITLAB_SOURCES ==
  [handbook |-> <<HandbookHost>>, direction |-> <<AboutHost, "/direction", "/">>]

SourceNames == <<"handbook", "direction">>
StagingKeys == {"handbook_staging", "direction_staging"}
ProductionKeys == {"handbook", "direction"}

\* The source argument scrapeGitLabData passes for each site; passing the
\* site's own name would make the crawl write the production record.
StagingSourceDirect(name) == name
StagingSource(name) ==
  IF name = "handbook" THEN "handbook_staging" ELSE "direction_staging"

\* The scheme-and-host part of an absolute URL: its leading host tokens.
RECURSIVE HostLen(_)
HostLen(u) ==
  IF u = <<>> \/ Head(u) \notin HostTokens THEN 0 ELSE 1 + HostLen(Tail(u))
Origin(u) == SubSeq(u, 1, HostLen(u))

\* urlModule.resolve(from, to): an absolute href replaces the base (a bare
\* origin gets the path "/"), a rooted path replaces the base's path.
Resolve(from, to) ==
  IF HostLen(to) > 0
    THEN IF HostLen(to) = Len(to) THEN to \o <<"/">> ELSE to
    ELSE Origin(from) \o to

\* hrefs the link loop skips before resolving them.
SkippedHref(href) ==
  href = <<>> \/ Head(href) \in {"mailto", "#", "javascript:"}


\* ------------------------------------------------------------------- pages
\* What a successful GET of a URL returns, as far as the crawler looks at it:
\* the <title> text, the first <h1> text, the length of the whitespace-
\* collapsed body text, and the href attributes of its anchors in order.
Body(title, h1, textLen, hrefs) ==
  [title |-> title, h1 |-> h1, textLen |-> textLen, hrefs |-> hrefs]

H == GITLAB_SOURCES.handbook
D == GITLAB_SOURCES.direction

\* The web the refresh is checked against: a handbook of three pages and a
\* one-page direction site, with off-prefix, fragment and mailto links.
SmallSite ==
  (H :> Body("Handbook", "", 6000,
             << <<"/a">>, <<"#", "top">>, <<OtherHost, "/x">>, <<"/b">> >>)) @@
  (H \o <<"/a">> :> Body("", "A", 101, << <<"/b">>, <<"mailto", "x">> >>)) @@
  (H \o <<"/b">> :> Body("", "", 200, << <<HandbookHost, "/a">> >>)) @@
  (D :> Body("Direction", "", 300,
             << <<AboutHost, "/direction", "-extra">>, <<"#", "top">> >>))

\* Webs for a single crawl: SmallSite, a site with a page that is too short
\* and a link to a host that merely continues the root's host name, and a
\* site whose pages link back to the bare origin.
ShortSite ==
  (H :> Body("Handbook", "", 101,
             << <<"/a">>, <<"/b">>, <<HandbookHost, HostSuffix, "/x">> >>)) @@
  (H \o <<"/a">> :> Body("", "", 100, << <<"/c">> >>)) @@
  (H \o <<"/b">> :> Body("B", "", 5000, << <<"/a">>, <<"/c">> >>)) @@
  (H \o <<"/c">> :> Body("C", "", 150, << >>))

LoopSite ==
  (H :> Body("Handbook", "", 400, << <<"/a">>, <<HandbookHost>> >>)) @@
  (H \o <<"/">> :> Body("Handbook", "", 400, << <<"/a">>, <<"/b">> >>)) @@
  (H \o <<"/a">> :> Body("A", "", 400, << <<"/b">>, <<"/">> >>)) @@
  (H \o <<"/b">> :> Body("B", "", 400, << <<OtherHost, "/x">> >>))

\* A root that links to three pages which link among themselves only.
StarSite ==
  (H :> Body("Handbook", "", 800, << <<"/a">>, <<"/b">>, <<"/c">> >>)) @@
  (H \o <<"/a">> :> Body("A", "", 6000, << <<"/b">>, <<"/c">> >>)) @@
  (H \o <<"/b">> :> Body("", "B", 200, << <<HandbookHost, "/a">>, <<"/c">> >>)) @@
  (H \o <<"/c">> :> Body("", "", 101, << <<"/a">> >>))

\* A root with seven eligible links, two of them to the same URL; four of
\* the linked URLs answer with an error.
WideSite ==
  (H :> Body("Handbook", "", 300,
             << <<"/a">>, <<OtherHost, "/x">>, <<"/a">>, <<"/b">>,
                <<"#", "top">>, <<"/c">>, <<"/d">>, <<"/e">>, <<"/f">> >>)) @@
  (H \o <<"/a">> :> Body("A", "", 300, << <<"/e">>, <<"/f">>, <<"/b">> >>)) @@
  (H \o <<"/b">> :> Body("B", "", 300, << >>))

\* A site none of whose pages has more than 100 characters of text.
ThinSite ==
  (H :> Body("Handbook", "", 100, << <<"/a">> >>)) @@
  (H \o <<"/a">> :> Body("A", "", 50, << >>))

CrawlSites == {SmallSite, ShortSite, LoopSite, StarSite, WideSite, ThinSite}

\* Errors axios.get rejects with: code and whether the message contains
\* 'socket hang up'.
FetchError(code, hangupMessage) == [code |-> code, hangup |-> hangupMessage]
FetchErrors ==
  { FetchError("ECONNRESET", FALSE), FetchError("NONE", TRUE),
    FetchError("ECONNABORTED", FALSE), FetchError("ENOTFOUND", FALSE),
    FetchError("EAI_AGAIN", FALSE), FetchError("ERR_BAD_RESPONSE", FALSE),
    FetchError("ERR_BAD_REQUEST", FALSE) }

IsHangup(e) == e.code = "ECONNRESET" \/ e.hangup
IsNetwork(e) == e.code \in {"ECONNABORTED", "ENOTFOUND", "EAI_AGAIN"}

\* cheerio extraction of one page.
PageTitle(body) ==
  IF body.title # "" THEN body.title
  ELSE IF body.h1 # "" THEN body.h1 ELSE "Untitled"
PageRecord(url, body) ==
  [url |-> url, title |-> PageTitle(body),
   text |-> Min(body.textLen, MaxTextLength)]
HasContentInclusive(body) == body.textLen >= MinTextLength
HasContent(body) == body.textLen > MinTextLength

\* JSON.stringify / JSON.parse of the snapshot object.
JSONstringify(data) == [json |-> data]
JSONparse(text) == text.json
EmptyData(rootUrl) == [title |-> "", url |-> rootUrl, pages |-> <<>>]
Doc(content, at) == [content |-> content, scrapedAt |-> at]

\* ------------------------------------------------------- crawler decisions
\* The visited test of the loop head, and the loop without it.
AlreadyVisitedNever(url, visitedUrls) == FALSE
AlreadyVisited(url, visitedUrls) == url \in visitedUrls

LoopContinues(queue, totalPagesSaved, maxPages) ==
  queue # <<>> /\ totalPagesSaved < maxPages

\* The flush condition, the condition without its ceiling disjunct, and
\* the condition without its batch disjunct.
ShouldFlushOnCeilingOnly(batchLen, totalPagesSaved, maxPages, batchSize) ==
  totalPagesSaved + batchLen >= maxPages
ShouldFlushOnBatchOnly(batchLen, totalPagesSaved, maxPages, batchSize) ==
  batchLen >= batchSize
ShouldFlush(batchLen, totalPagesSaved, maxPages, batchSize) ==
  batchLen >= batchSize \/ totalPagesSaved + batchLen >= maxPages

\* The link filter, the filter that compares hosts, the filter without its
\* prefix test, and the filter without its visited test.
EligibleLinkSameHost(absoluteUrl, rootUrl, visitedUrls) ==
  Origin(absoluteUrl) = Origin(rootUrl) /\ absoluteUrl \notin visitedUrls
EligibleLinkAnyHost(absoluteUrl, rootUrl, visitedUrls) ==
  absoluteUrl \notin visitedUrls
EligibleLinkVisitedToo(absoluteUrl, rootUrl, visitedUrls) ==
  StartsWith(absoluteUrl, rootUrl)
EligibleLink(absoluteUrl, rootUrl, visitedUrls) ==
  StartsWith(absoluteUrl, rootUrl) /\ absoluteUrl \notin visitedUrls

\* The $('a[href]').each loop: the eligible absolute URLs in document order.
RECURSIVE NewLinks(_, _, _, _)
NewLinks(hrefs, url, rootUrl, visitedUrls) ==
  IF hrefs = <<>> THEN <<>>
  ELSE LET href == Head(hrefs)
           rest == NewLinks(Tail(hrefs), url, rootUrl, visitedUrls)
       IN IF SkippedHref(href) THEN rest
          ELSE LET absoluteUrl == Resolve(url, href)
               IN IF EligibleLink(absoluteUrl, rootUrl, visitedUrls)
                    THEN <<absoluteUrl>> \o rest
                    ELSE rest

\* attempt++ in the catch block, and the catch block without it.
NextAttemptSame(attempt) == attempt
NextAttempt(attempt) == attempt + 1

\* The test of the catch block that sends the retry loop round again, the
\* test with the hang-up errors only, and the test without the error kinds.
ShouldRetryOnHangup(e, attempt) == IsHangup(e) /\ attempt < MaxAttempts
ShouldRetryAnyError(e, attempt) == attempt < MaxAttempts
ShouldRetry(e, attempt) ==
  (IsHangup(e) \/ IsNetwork(e)) /\ attempt < MaxAttempts

\* newLinks.slice(0, 5), and the whole of newLinks.
SliceAll(s, n) == s
Slice(s, n) == SubSeq(s, 1, Min(Len(s), n))

\* -------------------------------------------------------------------- state
VARIABLES
  refreshStatus,  \* the module-level refreshStatus object
  store,          \* the GitLabData collection: source -> document
  now,            \* the clock new Date() reads
  site,           \* the web: URL -> page served on a successful GET
  frame,          \* per call of backgroundRefresh: its position and locals
  reader          \* the call of getGitLabData in flight: position and locals

vars == <<refreshStatus, store, now, site, frame, reader>>

\* Caller 0 is the app.listen callback, the others are POST /refresh-data
\* requests.
StartupCaller == 0
ManualCallers == 1..NumManual
Callers == {StartupCaller} \cup ManualCallers
\* The calls of backgroundRefresh that getGitLabData makes in the
\* read-triggered variant.
ReadCallers == (NumManual + 1)..(NumManual + NumReads)

NoBody == Body("", "", 0, <<>>)
NoTxn == [writes |-> <<>>, deletes |-> {}]

\* Locals of a call that is not running (before it starts, after it ends).
IdleFrame ==
  [pc |-> "idle",
   \* scrapeGitLabData: 1, 2 = the site being crawled; 0 = a direct call of
   \* scrapeAndSaveSite
   siteIdx |-> 0,
   \* scrapeAndSaveSite
   rootUrl |-> <<>>, source |-> "", maxPages |-> 0, batchSize |-> 0,
   visitedUrls |-> {}, queue |-> <<>>, currentBatch |-> <<>>,
   totalPagesSaved |-> 0, url |-> <<>>, attempt |-> 0, response |-> NoBody,
   existingData |-> EmptyData(<<>>),
   \* the milliseconds of the backoff sleep in progress, 0 when there is none
   delay |-> 0,
   \* the promotion transaction
   handbookStaging |-> None, directionStaging |-> None, txn |-> NoTxn,
   \* the error scrapeGitLabData is about to rethrow
   error |-> Null,
   \* what backgroundRefresh returned, whether its promise rejected instead,
   \* and the HTTP response of the request
   result |-> None, rejected |-> FALSE, res |-> None,
   \* history: the production records when the call was accepted, the URLs
   \* handed to axios.get in the current crawl, the pages each finished
   \* crawl accepted, the pages the current crawl accepted, whether every
   \* error of the current URL was ECONNRESET, and the sources whose root
   \* URL was given up after three ECONNRESET errors; the number of calls of
   \* axios.get for the current URL, and whether every one of them raised a
   \* hang-up or network error
   before |-> <<>>, fetched |-> <<>>, finished |-> <<>>, accepted |-> <<>>,
   resetOnly |-> TRUE, rootReset |-> {}, gets |-> 0, transientOnly |-> TRUE,
   \* the URLs the current crawl has given up, and whether the latest
   \* error of the current URL was neither a hang-up nor a network error
   givenUp |-> {}, permanent |-> FALSE,
   \* read-triggered variant: data.pages of scrapeSite, and the two results
   \* scrapeGitLabData holds
   pages |-> <<>>, handbookData |-> None, directionData |-> None]

\* The part of the collection under the given keys.
Restrict(f, keys) == [k \in DOMAIN f \cap keys |-> f[k]]
Production(st) == Restrict(st, ProductionKeys)
\* findOneAndUpdate({source}, doc, {upsert: true})
Upsert(st, key, doc) == [k \in DOMAIN st \cup {key} |-> IF k = key THEN doc ELSE st[k]]
\* deleteMany({source: {$in: keys}})
DeleteMany(st, keys) == Restrict(st, DOMAIN st \ keys)
\* findOne({source}): the document or null
FindOne(st, key) == IF key \in DOMAIN st THEN Some(st[key]) ELSE None

\* ------------------------------------------------------- backgroundRefresh
\* The synchronous head of backgroundRefresh: the test of isRefreshing and,
\* when it is false, the four assignments, with no await in between.  The
\* first two definitions are the head without the test, and the head with
\* the assignment of lastRefreshAttempt placed before the test; the third
\* is the head without the assignment of isRefreshing, the fourth the head
\* without the assignment of lastRefreshError.
BackgroundRefreshEntryNoGuard(status, t) ==
  [accepted |-> TRUE,
   status |-> [isRefreshing |-> TRUE, lastRefreshAttempt |-> Some(t),
               lastRefreshError |-> Null, startTime |-> Some(t)]]
BackgroundRefreshEntryStampFirst(status, t) ==
  IF status.isRefreshing
    THEN [accepted |-> FALSE,
          status |-> [status EXCEPT !.lastRefreshAttempt = Some(t)]]
    ELSE BackgroundRefreshEntryNoGuard(status, t)
BackgroundRefreshEntryNoFlag(status, t) ==
  IF status.isRefreshing
    THEN [accepted |-> FALSE, status |-> status]
    ELSE [accepted |-> TRUE,
          status |-> [isRefreshing |-> FALSE, lastRefreshAttempt |-> Some(t),
                      lastRefreshError |-> Null, startTime |-> Some(t)]]
BackgroundRefreshEntryKeepsError(status, t) ==
  IF status.isRefreshing
    THEN [accepted |-> FALSE, status |-> status]
    ELSE [accepted |-> TRUE,
          status |-> [status EXCEPT !.isRefreshing = TRUE,
                                    !.lastRefreshAttempt = Some(t),
                                    !.startTime = Some(t)]]
BackgroundRefreshEntry(status, t) ==
  IF status.isRefreshing
    THEN [accepted |-> FALSE, status |-> status]
    ELSE [accepted |-> TRUE,
          status |-> [isRefreshing |-> TRUE, lastRefreshAttempt |-> Some(t),
                      lastRefreshError |-> Null, startTime |-> Some(t)]]

\* The catch and finally blocks of backgroundRefresh; error is Null when
\* scrapeGitLabData returned.  The first definition clears the flag on the
\* success path only, as a function without the finally block would.
BackgroundRefreshExitNoFinally(status, error) ==
  IF error = Null THEN [status EXCEPT !.isRefreshing = FALSE]
  ELSE [status EXCEPT !.lastRefreshError = error]
BackgroundRefreshExit(status, error) ==
  [status EXCEPT !.isRefreshing = FALSE,
                 !.lastRefreshError = IF error = Null THEN @ ELSE error]

AlreadyRunningResult ==
  [success |-> FALSE, message |-> <<"Refresh already in progress">>]
SuccessResult ==
  [success |-> TRUE, message |-> <<"Refresh completed successfully">>]
FailureResultAsRunning(error) == AlreadyRunningResult
FailureResult(error) == [success |-> FALSE, message |-> <<"Refresh failed: ", error>>]

\* res.json(...) of POST /refresh-data, sent after `await backgroundRefresh()`.
RefreshDataResponse(result, status) ==
  [message |-> IF result.success
                 THEN <<"GitLab data refresh started in background">>
                 ELSE result.message,
   refreshStatus |-> [isRefreshing |-> status.isRefreshing,
                      lastRefreshAttempt |-> status.lastRefreshAttempt,
                      startTime |-> status.startTime]]

\* The frame of a call whose backgroundRefresh has returned `result` while
\* the status object is `status`: the startup callback drops the promise,
\* the request handler resumes in the same turn and answers.
Returned(c, result, status) ==
  [IdleFrame EXCEPT
     !.pc = "done", !.result = Some(result),
     !.res = IF c \in ManualCallers
               THEN Some(RefreshDataResponse(result, status)) ELSE None]

\* How the promise of an accepted backgroundRefresh settles when
\* scrapeGitLabData has thrown error (Null: it returned): the catch block
\* turns the error into a returned value.  The first definition is a catch
\* block that throws the error on.
SettlesRethrowing(error) ==
  [rejected |-> error # Null,
   value |-> IF error = Null THEN SuccessResult ELSE FailureResult(error)]
Settles(error) ==
  [rejected |-> FALSE,
   value |-> IF error = Null THEN SuccessResult ELSE FailureResult(error)]

\* The frame of a call whose promise has settled: a rejection reaches the
\* catch block of the request handler, which answers with status 500; the
\* startup callback has no handler for it, and the process ends.
Settled(c, outcome, status) ==
  IF outcome.rejected
    THEN [IdleFrame EXCEPT
            !.pc = IF c = StartupCaller THEN "crashed" ELSE "done",
            !.rejected = TRUE,
            !.res = IF c \in ManualCallers
                      THEN Some([message |-> outcome.value.message,
                                 refreshStatus |-> <<>>])
                      ELSE None]
    ELSE Returned(c, outcome.value, status)

\* -------------------------------------------------------- scrapeAndSaveSite
\* The synchronous start of scrapeAndSaveSite up to its first await.
EnterCrawl(f, idx, rootUrl, source, maxPages, batchSize) ==
  [f EXCEPT
     !.pc = "init", !.siteIdx = idx, !.rootUrl = rootUrl, !.source = source,
     !.maxPages = maxPages, !.batchSize = batchSize,
     !.visitedUrls = {}, !.queue = <<rootUrl>>, !.currentBatch = <<>>,
     !.totalPagesSaved = 0, !.url = <<>>, !.attempt = 0,
     !.response = NoBody, !.existingData = EmptyData(<<>>),
     !.fetched = <<>>, !.accepted = <<>>, !.resetOnly = TRUE,
     !.gets = 0, !.transientOnly = TRUE, !.givenUp = {},
     !.permanent = FALSE]

\* scrapeAndSaveSite returns: scrapeGitLabData starts the second crawl or
\* goes on to mongoose.startSession(); a direct call just ends.  The first
\* definition goes on to the session as soon as the first crawl returns.
CrawlReturnPromotesEarly(f) ==
  IF f.siteIdx = 0 THEN [f EXCEPT !.pc = "returned"]
  ELSE [f EXCEPT !.pc = "startSession"]
CrawlReturn(f) ==
  LET g == [f EXCEPT
              !.finished = [k \in DOMAIN f.finished \cup {f.source} |->
                              IF k = f.source THEN f.accepted
                              ELSE f.finished[k]]]
  IN IF f.siteIdx = 0 THEN [g EXCEPT !.pc = "returned"]
     ELSE IF f.siteIdx = 1
       THEN EnterCrawl(g, 2, GITLAB_SOURCES.direction,
                       StagingSource("direction"),
                       DefaultMaxPages, DefaultBatchSize)
       ELSE [g EXCEPT !.pc = "startSession"]

\* A store operation of the crawl rejects: the crawl rethrows, and the catch
\* block of scrapeGitLabData is entered.
CrawlThrow(f, message) ==
  IF f.siteIdx = 0 THEN [f EXCEPT !.pc = "thrown", !.error = message]
  ELSE [f EXCEPT !.pc = "cleanup", !.error = message]

\* The link block at the end of a loop iteration, then back to the loop head.
EnqueueLinks(f) ==
  [f EXCEPT
     !.pc = "loop",
     !.queue =
        IF f.totalPagesSaved < f.maxPages
          THEN @ \o Slice(NewLinks(f.response.hrefs, f.url, f.rootUrl,
                                   f.visitedUrls), LinkFanOut)
          ELSE @]

StoreError == "store error"

SetFrame(c, f) == frame' = [frame EXCEPT ![c] = f]

\* Initialize empty document for this source; and an initialisation that
\* leaves a record that is already there as it is.
InitStagingKeeping(c) ==
  LET f == frame[c] IN
  /\ f.pc = "init"
  /\ \/ /\ store' = IF f.source \in DOMAIN store THEN store
                     ELSE Upsert(store, f.source,
                                 Doc(JSONstringify(EmptyData(f.rootUrl)), now))
        /\ SetFrame(c, [f EXCEPT !.pc = "loop"])
     \/ /\ SetFrame(c, CrawlThrow(f, StoreError))
        /\ UNCHANGED store
  /\ UNCHANGED <<refreshStatus, now, site, reader>>
InitStaging(c) ==
  LET f == frame[c] IN
  /\ f.pc = "init"
  /\ \/ /\ store' = Upsert(store, f.source,
                           Doc(JSONstringify(EmptyData(f.rootUrl)), now))
        /\ SetFrame(c, [f EXCEPT !.pc = "loop"])
     \/ /\ SetFrame(c, CrawlThrow(f, StoreError))
        /\ UNCHANGED store
  /\ UNCHANGED <<refreshStatus, now, site, reader>>

\* queue.shift(): the element taken and what is left; and queue.pop().
Pop(queue) ==
  [url |-> queue[Len(queue)], rest |-> SubSeq(queue, 1, Len(queue) - 1)]
Shift(queue) == [url |-> Head(queue), rest |-> Tail(queue)]

\* The head of the while loop: the loop test, queue.shift(), the visited
\* test, and the start of the retry loop up to its sleep.
LoopHead(c) ==
  LET f == frame[c] IN
  /\ f.pc = "loop"
  /\ IF LoopContinues(f.queue, f.totalPagesSaved, f.maxPages)
       THEN LET url == Shift(f.queue).url
                rest == Shift(f.queue).rest
            IN
            IF AlreadyVisited(url, f.visitedUrls)
              THEN SetFrame(c, [f EXCEPT !.queue = rest])
              ELSE SetFrame(c, [f EXCEPT
                     !.queue = rest, !.url = url,
                     !.visitedUrls = @ \cup {url},
                     !.attempt = 0, !.response = NoBody, !.resetOnly = TRUE,
                     !.gets = 0, !.transientOnly = TRUE, !.permanent = FALSE,
                     !.fetched = Append(@, url), !.pc = "sleep"])
       ELSE IF f.currentBatch # <<>>
              THEN SetFrame(c, [f EXCEPT !.pc = "finalFind"])
              ELSE SetFrame(c, CrawlReturn(f))
  /\ UNCHANGED <<refreshStatus, store, now, site, reader>>

\* await sleep(1000 + Math.random() * 1000)
PolitenessSleep(c) ==
  /\ frame[c].pc = "sleep"
  /\ SetFrame(c, [frame[c] EXCEPT !.pc = "get"])
  /\ UNCHANGED <<refreshStatus, store, now, site, reader>>

\* The argument of sleep(1500 * attempt), and a delay that does not grow.
BackoffDelayFlat(attempt) == BackoffBase
BackoffDelay(attempt) == BackoffBase * attempt

\* await sleep(1500 * attempt); and a retry loop whose next attempt follows
\* the backoff at once.
BackoffSleepThenGet(c) ==
  /\ frame[c].pc = "backoff"
  /\ SetFrame(c, [frame[c] EXCEPT !.pc = "get", !.delay = 0])
  /\ UNCHANGED <<refreshStatus, store, now, site, reader>>
BackoffSleep(c) ==
  /\ frame[c].pc = "backoff"
  /\ SetFrame(c, [frame[c] EXCEPT !.pc = "sleep", !.delay = 0])
  /\ UNCHANGED <<refreshStatus, store, now, site, reader>>

\* axios.get resolves, in a crawler whose link block is inside the test of
\* the text length: a page with too little text adds nothing to the queue.
GetSucceedsLinksOfAccepted(c) ==
  LET f == frame[c] IN
  /\ f.pc = "get"
  /\ f.url \in DOMAIN site
  /\ LET body == site[f.url]
         g == [f EXCEPT !.response = body, !.gets = @ + 1,
                        !.transientOnly = FALSE]
     IN IF HasContent(body)
          THEN LET h == [g EXCEPT
                           !.currentBatch = Append(@, PageRecord(f.url, body)),
                           !.accepted = Append(@, PageRecord(f.url, body))]
               IN IF ShouldFlush(Len(h.currentBatch), h.totalPagesSaved,
                                 h.maxPages, h.batchSize)
                    THEN SetFrame(c, [h EXCEPT !.pc = "flushFind"])
                    ELSE SetFrame(c, EnqueueLinks(h))
          ELSE SetFrame(c, [g EXCEPT !.pc = "loop"])
  /\ UNCHANGED <<refreshStatus, store, now, site, reader>>

\* axios.get resolves: the page is extracted, pushed to the batch when it
\* has enough text, and either a flush begins or the links are enqueued.
GetSucceeds(c) ==
  LET f == frame[c] IN
  /\ f.pc = "get"
  /\ f.url \in DOMAIN site
  /\ LET body == site[f.url]
         g == [f EXCEPT !.response = body, !.gets = @ + 1,
                        !.transientOnly = FALSE]
     IN IF HasContent(body)
          THEN LET h == [g EXCEPT
                           !.currentBatch = Append(@, PageRecord(f.url, body)),
                           !.accepted = Append(@, PageRecord(f.url, body))]
               IN IF ShouldFlush(Len(h.currentBatch), h.totalPagesSaved,
                                 h.maxPages, h.batchSize)
                    THEN SetFrame(c, [h EXCEPT !.pc = "flushFind"])
                    ELSE SetFrame(c, EnqueueLinks(h))
          ELSE SetFrame(c, EnqueueLinks(g))
  /\ UNCHANGED <<refreshStatus, store, now, site, reader>>

\* `if (!success) continue`: back to the loop head; a crawler that throws
\* the error of the last attempt instead; and one that counts the URL as a
\* page.
GiveUpThrowing(f) == CrawlThrow(f, "fetch error")
GiveUpCounting(f) == [f EXCEPT !.pc = "loop", !.totalPagesSaved = @ + 1]
GiveUp(f) == [f EXCEPT !.pc = "loop"]

\* axios.get rejects: retry after a backoff, or give the URL up.
GetFails(c) ==
  LET f == frame[c] IN
  /\ f.pc = "get"
  /\ \E e \in FetchErrors :
       /\ LET attempt == NextAttempt(f.attempt)
              resetOnly == f.resetOnly /\ e.code = "ECONNRESET"
              g == [f EXCEPT
                      !.gets = Min(@, MaxAttempts) + 1,
                      !.transientOnly = @ /\ (IsHangup(e) \/ IsNetwork(e)),
                      !.permanent = ~(IsHangup(e) \/ IsNetwork(e))]
          IN IF ShouldRetry(e, attempt)
               THEN SetFrame(c, [g EXCEPT !.attempt = attempt,
                                          !.resetOnly = resetOnly,
                                          !.delay = BackoffDelay(attempt),
                                          !.pc = "backoff"])
               ELSE SetFrame(c, GiveUp([g EXCEPT
                      !.attempt = attempt,
                      !.resetOnly = TRUE, !.givenUp = @ \cup {f.url},
                      !.rootReset =
                         IF resetOnly /\ attempt = MaxAttempts
                            /\ f.url = f.rootUrl /\ f.siteIdx > 0
                           THEN @ \cup {SourceNames[f.siteIdx]} ELSE @]))
  /\ UNCHANGED <<refreshStatus, store, now, site, reader>>

\* The document read back by a flush: parsed, or a fresh snapshot object
\* when there is none.  The first definition starts afresh every time.
ExistingDataFresh(found, rootUrl) == EmptyData(rootUrl)
ExistingData(found, rootUrl) ==
  IF found # None THEN JSONparse(found[1].content) ELSE EmptyData(rootUrl)

\* existingData.pages = [...existingData.pages, ...currentBatch], and the
\* assignment of the batch alone.
AppendBatchAlone(data, batch) == [data EXCEPT !.pages = batch]
AppendBatch(data, batch) == [data EXCEPT !.pages = @ \o batch]

\* A flush inside the loop, first await: GitLabData.findOne({ source }).
FlushFind(c) ==
  LET f == frame[c] IN
  /\ f.pc = "flushFind"
  /\ \/ SetFrame(c, [f EXCEPT
          !.existingData =
             AppendBatch(ExistingData(FindOne(store, f.source), f.rootUrl),
                         f.currentBatch),
          !.pc = "flushSave"])
     \/ SetFrame(c, CrawlThrow(f, StoreError))
  /\ UNCHANGED <<refreshStatus, store, now, site, reader>>

\* The second await of a flush as it would be without `currentBatch = []`.
FlushSaveKeepingBatch(c) ==
  LET f == frame[c] IN
  /\ f.pc = "flushSave"
  /\ \/ /\ store' = Upsert(store, f.source,
                           Doc(JSONstringify(f.existingData), now))
        /\ SetFrame(c, EnqueueLinks([f EXCEPT
             !.totalPagesSaved = @ + Len(f.currentBatch),
             !.existingData = EmptyData(<<>>)]))
     \/ /\ SetFrame(c, CrawlThrow(f, StoreError))
        /\ UNCHANGED store
  /\ UNCHANGED <<refreshStatus, now, site, reader>>

\* A flush inside the loop, second await: the upsert of the merged pages,
\* then the counters, the cleared batch and the link block.
FlushSave(c) ==
  LET f == frame[c] IN
  /\ f.pc = "flushSave"
  /\ \/ /\ store' = Upsert(store, f.source,
                           Doc(JSONstringify(f.existingData), now))
        /\ SetFrame(c, EnqueueLinks([f EXCEPT
             !.totalPagesSaved = @ + Len(f.currentBatch),
             !.currentBatch = <<>>,
             !.existingData = EmptyData(<<>>)]))
     \/ /\ SetFrame(c, CrawlThrow(f, StoreError))
        /\ UNCHANGED store
  /\ UNCHANGED <<refreshStatus, now, site, reader>>

\* The flush after the loop, first await.
FinalFind(c) ==
  LET f == frame[c] IN
  /\ f.pc = "finalFind"
  /\ \/ SetFrame(c, [f EXCEPT
          !.existingData =
             AppendBatch(ExistingData(FindOne(store, f.source), f.rootUrl),
                         f.currentBatch),
          !.pc = "finalSave"])
     \/ SetFrame(c, CrawlThrow(f, StoreError))
  /\ UNCHANGED <<refreshStatus, store, now, site, reader>>

\* The flush after the loop, second await; the crawl then returns.
FinalSave(c) ==
  LET f == frame[c] IN
  /\ f.pc = "finalSave"
  /\ \/ /\ store' = Upsert(store, f.source,
                           Doc(JSONstringify(f.existingData), now))
        /\ SetFrame(c, CrawlReturn([f EXCEPT
             !.totalPagesSaved = @ + Len(f.currentBatch),
             !.existingData = EmptyData(<<>>)]))
     \/ /\ SetFrame(c, CrawlThrow(f, StoreError))
        /\ UNCHANGED store
  /\ UNCHANGED <<refreshStatus, now, site, reader>>

\* --------------------------------------------------------- scrapeGitLabData
\* A write made with { session }: it is held by the transaction until the
\* commit.  Without the session option it reaches the collection at once.
SessionWriteNoSession(st, txn, key, doc) ==
  [store |-> Upsert(st, key, doc), txn |-> txn]
SessionWrite(st, txn, key, doc) ==
  [store |-> st, txn |-> [txn EXCEPT !.writes = Upsert(@, key, doc)]]
SessionDelete(st, txn, keys) ==
  [store |-> st, txn |-> [txn EXCEPT !.deletes = @ \cup keys]]
\* commitTransaction: every held write and delete at once.
Commit(st, txn) ==
  DeleteMany([k \in DOMAIN st \cup DOMAIN txn.writes |->
                IF k \in DOMAIN txn.writes THEN txn.writes[k] ELSE st[k]],
             txn.deletes)

\* A step of the transaction callback rejects: withTransaction aborts the
\* transaction and rethrows; the finally block ends the session next.
TxnThrow(f, message) ==
  [f EXCEPT !.pc = "endSession", !.error = message, !.txn = NoTxn]

\* The two `if (...Staging)` tests after the reads, and the deleteMany.
\* The first definition tests for a staging record that holds pages.
AfterFindsSkippingEmpty(f) ==
  IF f.handbookStaging # None
     /\ JSONparse(f.handbookStaging[1].content).pages # <<>>
    THEN [f EXCEPT !.pc = "txUpsertHandbook"]
  ELSE IF f.directionStaging # None THEN [f EXCEPT !.pc = "txUpsertDirection"]
  ELSE [f EXCEPT !.pc = "txDelete"]
AfterFinds(f) ==
  IF f.handbookStaging # None THEN [f EXCEPT !.pc = "txUpsertHandbook"]
  ELSE IF f.directionStaging # None THEN [f EXCEPT !.pc = "txUpsertDirection"]
  ELSE [f EXCEPT !.pc = "txDelete"]

\* await mongoose.startSession()
StartSession(c) ==
  LET f == frame[c] IN
  /\ f.pc = "startSession"
  /\ \/ SetFrame(c, [f EXCEPT !.pc = "txFindHandbook", !.txn = NoTxn])
     \/ SetFrame(c, [f EXCEPT !.pc = "cleanup", !.error = StoreError])
  /\ UNCHANGED <<refreshStatus, store, now, site, reader>>

\* const handbookStaging = await GitLabData.findOne(...)
TxFindHandbook(c) ==
  LET f == frame[c] IN
  /\ f.pc = "txFindHandbook"
  /\ \/ SetFrame(c, [f EXCEPT
          !.handbookStaging = FindOne(store, "handbook_staging"),
          !.pc = "txFindDirection"])
     \/ SetFrame(c, TxnThrow(f, StoreError))
  /\ UNCHANGED <<refreshStatus, store, now, site, reader>>

\* const directionStaging = await GitLabData.findOne(...)
TxFindDirection(c) ==
  LET f == frame[c] IN
  /\ f.pc = "txFindDirection"
  /\ \/ SetFrame(c, AfterFinds([f EXCEPT
          !.directionStaging = FindOne(store, "direction_staging")]))
     \/ SetFrame(c, TxnThrow(f, StoreError))
  /\ UNCHANGED <<refreshStatus, store, now, site, reader>>

\* findOneAndUpdate({ source: 'handbook' }, ..., { upsert: true, session })
TxUpsertHandbook(c) ==
  LET f == frame[c] IN
  /\ f.pc = "txUpsertHandbook"
  /\ \/ LET w == SessionWrite(store, f.txn, "handbook",
                              Doc(f.handbookStaging[1].content, now))
        IN /\ store' = w.store
           /\ SetFrame(c, [f EXCEPT
                !.txn = w.txn,
                !.pc = IF f.directionStaging # None
                         THEN "txUpsertDirection" ELSE "txDelete"])
     \/ /\ SetFrame(c, TxnThrow(f, StoreError))
        /\ UNCHANGED store
  /\ UNCHANGED <<refreshStatus, now, site, reader>>

\* findOneAndUpdate({ source: 'direction' }, ..., { upsert: true, session })
TxUpsertDirection(c) ==
  LET f == frame[c] IN
  /\ f.pc = "txUpsertDirection"
  /\ \/ LET w == SessionWrite(store, f.txn, "direction",
                              Doc(f.directionStaging[1].content, now))
        IN /\ store' = w.store
           /\ SetFrame(c, [f EXCEPT !.txn = w.txn, !.pc = "txDelete"])
     \/ /\ SetFrame(c, TxnThrow(f, StoreError))
        /\ UNCHANGED store
  /\ UNCHANGED <<refreshStatus, now, site, reader>>

\* deleteMany({ source: { $in: [staging keys] } }, { session })
TxDelete(c) ==
  LET f == frame[c] IN
  /\ f.pc = "txDelete"
  /\ \/ LET w == SessionDelete(store, f.txn, StagingKeys)
        IN /\ store' = w.store
           /\ SetFrame(c, [f EXCEPT !.txn = w.txn, !.pc = "txCommit"])
     \/ /\ SetFrame(c, TxnThrow(f, StoreError))
        /\ UNCHANGED store
  /\ UNCHANGED <<refreshStatus, now, site, reader>>

\* The callback returned: withTransaction commits.
TxCommit(c) ==
  LET f == frame[c] IN
  /\ f.pc = "txCommit"
  /\ \/ /\ store' = Commit(store, f.txn)
        /\ SetFrame(c, [f EXCEPT !.txn = NoTxn, !.pc = "endSession"])
     \/ /\ SetFrame(c, TxnThrow(f, StoreError))
        /\ UNCHANGED store
  /\ UNCHANGED <<refreshStatus, now, site, reader>>

\* finally { await session.endSession() }: after a commit scrapeGitLabData
\* returns and backgroundRefresh returns its success value through its
\* finally block; after an abort the catch block of scrapeGitLabData runs.
EndSession(c) ==
  LET f == frame[c] IN
  /\ f.pc = "endSession"
  /\ IF f.error = Null
       THEN /\ refreshStatus' = BackgroundRefreshExit(refreshStatus, Null)
            /\ SetFrame(c, Settled(c, Settles(Null), refreshStatus'))
       ELSE /\ SetFrame(c, [f EXCEPT !.pc = "cleanup"])
            /\ UNCHANGED refreshStatus
  /\ UNCHANGED <<store, now, site, reader>>

\* The catch block of scrapeGitLabData: the staging records are deleted (a
\* failure of that is only logged), the error is rethrown, and the catch
\* and finally blocks of backgroundRefresh run.
Cleanup(c) ==
  LET f == frame[c] IN
  /\ f.pc = "cleanup"
  /\ \/ store' = DeleteMany(store, StagingKeys)
     \/ UNCHANGED store
  /\ refreshStatus' = BackgroundRefreshExit(refreshStatus, f.error)
  /\ SetFrame(c, Settled(c, Settles(f.error), refreshStatus'))
  /\ UNCHANGED <<now, site, reader>>

\* backgroundRefresh() is called: by the app.listen callback, which runs
\* before any request is served, or by a POST /refresh-data request.
Call(c) ==
  LET f == frame[c]
      e == BackgroundRefreshEntry(refreshStatus, now)
  IN
  /\ f.pc = "idle"
  /\ c # StartupCaller => frame[StartupCaller].pc # "idle"
  /\ refreshStatus' = e.status
  /\ IF e.accepted
       THEN /\ SetFrame(c, EnterCrawl([f EXCEPT !.before = Production(store)],
                                     1, GITLAB_SOURCES.handbook,
                                     StagingSource("handbook"),
                                     DefaultMaxPages, DefaultBatchSize))
            /\ now' = now + 1
       ELSE /\ SetFrame(c, Returned(c, AlreadyRunningResult, refreshStatus'))
            /\ UNCHANGED now
  /\ UNCHANGED <<store, site, reader>>

\* ------------------------------------------------------------ getGitLabData
\* Locals of getGitLabData when no call of it is in flight.  sawFirst and
\* sawSecond are history: the production records at the moment of the first
\* and of the second findOne of the call; sawStaged is whether a staging
\* record held pages at the second one.
IdleReader ==
  [pc |-> "idle", handbookDoc |-> None, directionDoc |-> None,
   dataFromDB |-> None, warned |-> FALSE,
   sawFirst |-> <<>>, sawSecond |-> <<>>, sawStaged |-> FALSE,
   \* which getGitLabData this is ("staged": the passive one, "direct": the
   \* read-triggered one), and whether it called backgroundRefresh
   variant |-> "staged", triggered |-> FALSE]

\* The sources the two reads of getGitLabData name, and the staging sources.
ReadSourcesStaging == <<"handbook_staging", "direction_staging">>
ReadSources == <<"handbook", "direction">>

\* findOne(...).select('scrapedAt')
SelectScrapedAt(found) ==
  IF found = None THEN None ELSE Some([scrapedAt |-> found[1].scrapedAt])

\* The object getGitLabData builds from the two documents.
DataFromDB(handbookDoc, directionDoc) ==
  [handbook |-> handbookDoc # None,
   direction |-> directionDoc # None,
   lastUpdated |->
     IF handbookDoc # None THEN Some(handbookDoc[1].scrapedAt)
     ELSE IF directionDoc # None THEN Some(directionDoc[1].scrapedAt)
     ELSE None]

\* age > threshold, where age is Infinity when lastUpdated is null.
OlderThan(lastUpdated, t, threshold) ==
  lastUpdated = None \/ t - lastUpdated[1] > threshold

StaleAfter == StaleHours * HourMs

\* A request handler calls getGitLabData(): it runs up to its first await.
GetData ==
  /\ reader.variant = "staged"
  /\ reader.pc \in {"idle", "done", "failed"}
  /\ reader' = [IdleReader EXCEPT !.pc = "findHandbook"]
  /\ UNCHANGED <<refreshStatus, store, now, site, frame>>

\* const handbookDoc = await GitLabData.findOne({ source: 'handbook' })...;
\* a rejection leaves getGitLabData, and the route answers with status 500.
ReadHandbook ==
  /\ reader.variant = "staged"
  /\ reader.pc = "findHandbook"
  /\ \/ reader' = [reader EXCEPT
          !.handbookDoc = SelectScrapedAt(FindOne(store, ReadSources[1])),
          !.sawFirst = Production(store),
          !.pc = "findDirection"]
     \/ reader' = [reader EXCEPT !.pc = "failed"]
  /\ UNCHANGED <<refreshStatus, store, now, site, frame>>

\* const directionDoc = await GitLabData.findOne({ source: 'direction' })...;
\* then the rest of getGitLabData: the object, the staleness warning, return.
\* The first definition runs the head of backgroundRefresh where the
\* warning is logged.
ReadDirectionTriggering ==
  /\ reader.variant = "staged"
  /\ reader.pc = "findDirection"
  /\ \/ LET directionDoc ==
               SelectScrapedAt(FindOne(store, ReadSources[2]))
             dataFromDB == DataFromDB(reader.handbookDoc, directionDoc)
             warned == OlderThan(dataFromDB.lastUpdated, now, StaleAfter)
         IN /\ reader' = [reader EXCEPT
                 !.directionDoc = directionDoc,
                 !.sawSecond = Production(store),
                 !.dataFromDB = Some(dataFromDB),
                 !.warned = warned,
                 !.pc = "done"]
            /\ refreshStatus' =
                 IF warned THEN BackgroundRefreshEntry(refreshStatus, now).status
                 ELSE refreshStatus
     \/ /\ reader' = [reader EXCEPT !.pc = "failed"]
        /\ UNCHANGED refreshStatus
  /\ UNCHANGED <<store, now, site, frame>>
ReadDirection ==
  /\ reader.variant = "staged"
  /\ reader.pc = "findDirection"
  /\ \/ LET directionDoc ==
               SelectScrapedAt(FindOne(store, ReadSources[2]))
             dataFromDB == DataFromDB(reader.handbookDoc, directionDoc)
         IN reader' = [reader EXCEPT
              !.directionDoc = directionDoc,
              !.sawSecond = Production(store),
              !.sawStaged =
                 \E k \in StagingKeys \cap DOMAIN store :
                   JSONparse(store[k].content).pages # <<>>,
              !.dataFromDB = Some(dataFromDB),
              !.warned = OlderThan(dataFromDB.lastUpdated, now, StaleAfter),
              !.pc = "done"]
     \/ reader' = [reader EXCEPT !.pc = "failed"]
  /\ UNCHANGED <<refreshStatus, store, now, site, frame>>

\* The threshold of this variant, twelve hours, passes.
PassHalfDay ==
  /\ reader.variant = "staged"
  /\ now < MaxClockJumps * StaleAfter
  /\ now' = now + StaleAfter
  /\ UNCHANGED <<refreshStatus, store, site, frame, reader>>

\* ------------------------------------------------- the read-triggered variant
\* The earlier routes/chat.js: scrapeSite crawls in memory, scrapeGitLabData
\* writes the two production records directly, and getGitLabData calls
\* backgroundRefresh when what it read is stale.

\* The synchronous head of this backgroundRefresh.
BackgroundRefreshEntryDirect(status, t) ==
  IF status.isRefreshing
    THEN [accepted |-> FALSE, status |-> status]
    ELSE [accepted |-> TRUE,
          status |-> [status EXCEPT !.isRefreshing = TRUE,
                                    !.lastRefreshAttempt = Some(t),
                                    !.lastRefreshError = Null]]

\* The frame of a call of this backgroundRefresh that has returned (it
\* returns undefined on every path).
ReturnedDirect == [IdleFrame EXCEPT !.pc = "done"]

\* The locals of scrapeSite(rootUrl, maxPages) at its start.
EnterScrape(f, idx, rootUrl, maxPages) ==
  [f EXCEPT
     !.siteIdx = idx, !.rootUrl = rootUrl, !.maxPages = maxPages,
     !.visitedUrls = {}, !.queue = <<rootUrl>>, !.pages = <<>>,
     !.url = <<>>, !.attempt = 0, !.response = NoBody]

\* The while loop of scrapeSite from its test to the next await: URLs
\* already visited are dropped, the next one goes to the retry loop; when
\* the loop ends scrapeSite returns its data, and scrapeGitLabData starts
\* the second crawl or goes on to the first upsert.
RECURSIVE ScrapeLoop(_)
ScrapeLoop(f) ==
  IF f.queue # <<>> /\ Len(f.pages) < f.maxPages
    THEN LET url == Head(f.queue) IN
         IF AlreadyVisited(url, f.visitedUrls)
           THEN ScrapeLoop([f EXCEPT !.queue = Tail(@)])
           ELSE [f EXCEPT !.queue = Tail(@), !.url = url,
                          !.visitedUrls = @ \cup {url},
                          !.attempt = 0, !.response = NoBody,
                          !.pc = "scrapeSleep"]
    ELSE LET data == [title |-> "", url |-> f.rootUrl, pages |-> f.pages]
         IN IF f.siteIdx = 1
              THEN ScrapeLoop(EnterScrape([f EXCEPT !.handbookData = Some(data)],
                                          2, GITLAB_SOURCES.direction,
                                          DirectMaxPages))
              ELSE [f EXCEPT !.directionData = Some(data),
                             !.pc = "upsertHandbook"]

\* await sleep(1000 + Math.random() * 1000)
ScrapeSleep(c) ==
  /\ frame[c].pc = "scrapeSleep"
  /\ SetFrame(c, [frame[c] EXCEPT !.pc = "scrapeGet"])
  /\ UNCHANGED <<refreshStatus, store, now, site, reader>>

\* await sleep(1500 * attempt)
ScrapeBackoff(c) ==
  /\ frame[c].pc = "scrapeBackoff"
  /\ SetFrame(c, [frame[c] EXCEPT !.pc = "scrapeSleep", !.delay = 0])
  /\ UNCHANGED <<refreshStatus, store, now, site, reader>>

\* axios.get resolves: the page is pushed when it has enough text, the link
\* block runs, and the loop goes on.
ScrapeGetSucceeds(c) ==
  LET f == frame[c] IN
  /\ f.pc = "scrapeGet"
  /\ f.url \in DOMAIN site
  /\ LET body == site[f.url]
         pages == IF HasContent(body)
                    THEN Append(f.pages, PageRecord(f.url, body))
                    ELSE f.pages
         queue == IF Len(pages) < f.maxPages
                    THEN f.queue \o Slice(NewLinks(body.hrefs, f.url, f.rootUrl,
                                                   f.visitedUrls), LinkFanOut)
                    ELSE f.queue
     IN SetFrame(c, ScrapeLoop([f EXCEPT !.response = body, !.pages = pages,
                                         !.queue = queue]))
  /\ UNCHANGED <<refreshStatus, store, now, site, reader>>

\* axios.get rejects: retry after a backoff, or go on with the next URL.
ScrapeGetFails(c) ==
  LET f == frame[c] IN
  /\ f.pc = "scrapeGet"
  /\ \E e \in FetchErrors :
       LET attempt == f.attempt + 1 IN
       IF ShouldRetry(e, attempt)
         THEN SetFrame(c, [f EXCEPT !.attempt = attempt,
                                    !.delay = BackoffDelay(attempt),
                                    !.pc = "scrapeBackoff"])
         ELSE SetFrame(c, ScrapeLoop([f EXCEPT !.attempt = attempt]))
  /\ UNCHANGED <<refreshStatus, store, now, site, reader>>

\* The first upsert of scrapeGitLabData; when it rejects, the error goes
\* through the catch of scrapeGitLabData to the catch and finally blocks
\* of backgroundRefresh.
UpsertHandbook(c) ==
  LET f == frame[c] IN
  /\ f.pc = "upsertHandbook"
  /\ \/ /\ store' = Upsert(store, "handbook",
                           Doc(JSONstringify(f.handbookData[1]), now))
        /\ SetFrame(c, [f EXCEPT !.pc = "upsertDirection"])
        /\ UNCHANGED refreshStatus
     \/ /\ refreshStatus' = BackgroundRefreshExit(refreshStatus, StoreError)
        /\ SetFrame(c, ReturnedDirect)
        /\ UNCHANGED store
  /\ UNCHANGED <<now, site, reader>>

\* The second upsert; backgroundRefresh then returns.
UpsertDirection(c) ==
  LET f == frame[c] IN
  /\ f.pc = "upsertDirection"
  /\ \/ /\ store' = Upsert(store, "direction",
                           Doc(JSONstringify(f.directionData[1]), now))
        /\ refreshStatus' = BackgroundRefreshExit(refreshStatus, Null)
     \/ /\ refreshStatus' = BackgroundRefreshExit(refreshStatus, StoreError)
        /\ UNCHANGED store
  /\ SetFrame(c, ReturnedDirect)
  /\ UNCHANGED <<now, site, reader>>

RefreshStep(c) ==
  \/ ScrapeSleep(c)
  \/ ScrapeGetSucceeds(c)
  \/ ScrapeGetFails(c)
  \/ ScrapeBackoff(c)
  \/ UpsertHandbook(c)
  \/ UpsertDirection(c)

\* The object this getGitLabData builds from the two documents.
DataFromDBDirect(handbookDoc, directionDoc) ==
  [handbook |-> IF handbookDoc # None
                  THEN Some(JSONparse(handbookDoc[1].content)) ELSE None,
   direction |-> IF directionDoc # None
                   THEN Some(JSONparse(directionDoc[1].content)) ELSE None,
   lastUpdated |-> IF handbookDoc # None
                     THEN Some(handbookDoc[1].scrapedAt) ELSE None]

\* if (age > 3600000 || !dataFromDB.handbook), and the test that never
\* asks for a refresh.
NeedsRefreshNever(dataFromDB, t) == FALSE
NeedsRefresh(dataFromDB, t) ==
  OlderThan(dataFromDB.lastUpdated, t, HourMs) \/ dataFromDB.handbook = None

\* A request handler calls this getGitLabData(); one of the calls of
\* backgroundRefresh it can make is still unused.
GetDataDirect ==
  /\ reader.variant = "direct"
  /\ reader.pc \in {"idle", "done", "failed"}
  /\ \E c \in ReadCallers : frame[c].pc = "idle"
  /\ reader' = [IdleReader EXCEPT !.variant = "direct",
                                  !.pc = "findHandbook"]
  /\ UNCHANGED <<refreshStatus, store, now, site, frame>>

\* const handbookDoc = await GitLabData.findOne({ source: 'handbook' })
ReadHandbookDirect ==
  /\ reader.variant = "direct"
  /\ reader.pc = "findHandbook"
  /\ \/ reader' = [reader EXCEPT
          !.handbookDoc = FindOne(store, "handbook"),
          !.sawFirst = Production(store),
          !.pc = "findDirection"]
     \/ reader' = [reader EXCEPT !.pc = "failed"]
  /\ UNCHANGED <<refreshStatus, store, now, site, frame>>

\* const directionDoc = await GitLabData.findOne({ source: 'direction' }),
\* then the rest of getGitLabData: when the data is stale or missing it
\* calls backgroundRefresh(), which runs to its first await, and does not
\* await the promise; then it returns dataFromDB.
ReadDirectionDirect ==
  /\ reader.variant = "direct"
  /\ reader.pc = "findDirection"
  /\ \/ LET directionDoc == FindOne(store, "direction")
             dataFromDB == DataFromDBDirect(reader.handbookDoc, directionDoc)
             stale == NeedsRefresh(dataFromDB, now)
             e == BackgroundRefreshEntryDirect(refreshStatus, now)
             c == CHOOSE x \in ReadCallers :
                    /\ frame[x].pc = "idle"
                    /\ \A y \in ReadCallers : frame[y].pc = "idle" => x <= y
         IN /\ reader' = [reader EXCEPT
                 !.directionDoc = directionDoc,
                 !.sawSecond = Production(store),
                 !.dataFromDB = Some(dataFromDB),
                 !.triggered = stale,
                 !.pc = "done"]
            /\ IF stale
                 THEN /\ refreshStatus' = e.status
                      /\ IF e.accepted
                           THEN /\ SetFrame(c, ScrapeLoop(EnterScrape(
                                      [frame[c] EXCEPT
                                         !.before = Production(store)],
                                      1, GITLAB_SOURCES.handbook,
                                      DirectMaxPages)))
                                /\ now' = now + 1
                           ELSE /\ SetFrame(c, ReturnedDirect)
                                /\ UNCHANGED now
                 ELSE UNCHANGED <<refreshStatus, frame, now>>
     \/ /\ reader' = [reader EXCEPT !.pc = "failed"]
        /\ UNCHANGED <<refreshStatus, frame, now>>
  /\ UNCHANGED <<store, site>>

\* The threshold of this variant, one hour, passes.
PassHour ==
  /\ reader.variant = "direct"
  /\ now < MaxClockJumps * HourMs
  /\ now' = now + HourMs
  /\ UNCHANGED <<refreshStatus, store, site, frame, reader>>

\* ------------------------------------------------------------ specifications
\* Records an earlier run of this code left in the database.
OldPage(rootUrl) == [url |-> rootUrl, title |-> "Old", text |-> 150]
OldDoc(rootUrl, pages) ==
  Doc(JSONstringify([title |-> "", url |-> rootUrl, pages |-> pages]), 0)
OldProduction ==
  ("handbook" :> OldDoc(H, <<OldPage(H)>>)) @@
  ("direction" :> OldDoc(D, <<OldPage(D)>>))
\* Staging records of a refresh whose cleanup failed.
LeftoverStaging ==
  ("handbook_staging" :> OldDoc(H, <<OldPage(H)>>)) @@
  ("direction_staging" :> OldDoc(D, <<>>))
\* A new database, one an earlier refresh filled, and one in which an
\* earlier refresh also left its staging records.
InitStores == { <<>>, OldProduction, OldProduction @@ LeftoverStaging }

InitStatus ==
  [isRefreshing |-> FALSE, lastRefreshAttempt |-> None,
   lastRefreshError |-> Null, startTime |-> None]

\* The process has loaded routes/chat.js and is about to listen.
Init ==
  /\ refreshStatus = InitStatus
  /\ store \in InitStores
  /\ now = 1
  /\ site = SmallSite
  /\ frame = [c \in Callers \cup ReadCallers |-> IdleFrame]
  /\ reader = IdleReader

CrawlStep(c) ==
  \/ InitStaging(c)
  \/ LoopHead(c)
  \/ PolitenessSleep(c)
  \/ GetSucceeds(c)
  \/ GetFails(c)
  \/ BackoffSleep(c)
  \/ FlushFind(c)
  \/ FlushSave(c)
  \/ FinalFind(c)
  \/ FinalSave(c)

SwapStep(c) ==
  \/ StartSession(c)
  \/ TxFindHandbook(c)
  \/ TxFindDirection(c)
  \/ TxUpsertHandbook(c)
  \/ TxUpsertDirection(c)
  \/ TxDelete(c)
  \/ TxCommit(c)
  \/ EndSession(c)
  \/ Cleanup(c)

\* Everything a call does once it is accepted.
Continue(c) == CrawlStep(c) \/ SwapStep(c)

Next == \E c \in Callers : Call(c) \/ Continue(c)

Spec == Init /\ [][Next]_vars

\* Every pending timer, HTTP request and store operation settles, so an
\* accepted call is resumed as long as it has a step to take.
FairSpec == Spec /\ \A c \in Callers : WF_vars(Continue(c))

\* One call scrapeAndSaveSite(rootUrl, source, maxPages, batchSize) on its
\* own, for each web and each choice of the two limits.
InitCrawl ==
  /\ refreshStatus = InitStatus
  /\ store \in InitStores
  /\ now = 1
  /\ site \in CrawlSites
  /\ \E maxPages \in 0..MaxPagesArg, batchSize \in 1..BatchSizeArg,
        name \in DOMAIN GITLAB_SOURCES :
       frame = [c \in Callers \cup ReadCallers |->
                  IF c = StartupCaller
                    THEN EnterCrawl(IdleFrame, 0, GITLAB_SOURCES[name],
                                    StagingSource(name),
                                    maxPages, batchSize)
                    ELSE IdleFrame]
  /\ reader = IdleReader

NextCrawl == \E c \in Callers : CrawlStep(c)

SpecCrawl == InitCrawl /\ [][NextCrawl]_vars

\* Every timer, HTTP request and store operation of the crawl settles.
FairSpecCrawl == SpecCrawl /\ \A c \in Callers : WF_vars(CrawlStep(c))

\* The staged refresh the process starts when it begins to listen, with
\* requests that call getGitLabData at any time and time passing.
NextRead ==
  \/ Call(StartupCaller)
  \/ Continue(StartupCaller)
  \/ GetData
  \/ ReadHandbook
  \/ ReadDirection
  \/ PassHalfDay

SpecRead == Init /\ [][NextRead]_vars

\* The read-triggered variant: requests that call getGitLabData, the
\* refreshes they start, and time passing.  The calls of the staged
\* backgroundRefresh do not exist in it.
NeverCalled == [IdleFrame EXCEPT !.pc = "done"]
InitDirect ==
  /\ refreshStatus = InitStatus
  /\ store \in {<<>>, OldProduction}
  /\ now = 1
  /\ site = SmallSite
  /\ frame = [c \in Callers \cup ReadCallers |->
                IF c \in ReadCallers THEN IdleFrame ELSE NeverCalled]
  /\ reader = [IdleReader EXCEPT !.variant = "direct"]

NextDirect ==
  \/ \E c \in ReadCallers : RefreshStep(c)
  \/ GetDataDirect
  \/ ReadHandbookDirect
  \/ ReadDirectionDirect
  \/ PassHour

SpecDirect == InitDirect /\ [][NextDirect]_vars

\* Either variant of routes/chat.js, with its readers.
NextReaders == NextRead \/ NextDirect

SpecReaders == (Init \/ InitDirect) /\ [][NextReaders]_vars

\* ------------------------------------------------------------------ claims
\* A call is active from its acceptance until backgroundRefresh returns.
Active(c) == frame[c].pc \notin {"idle", "done", "returned", "thrown"}
\* The step in which the accepted call c completes.
Completes(c) == Active(c) /\ frame'[c].pc = "done"
\* The step in which c calls backgroundRefresh.
Calls(c) == frame[c].pc = "idle" /\ frame'[c].pc # "idle"

Pages(doc) == JSONparse(doc.content).pages
BothFinished(f) == StagingKeys \subseteq DOMAIN f.finished
\* The production records are the snapshots the two finished crawls built.
PromotedFrom(st, f) ==
  /\ BothFinished(f)
  /\ ProductionKeys \subseteq DOMAIN st
  /\ st["handbook"].content =
       JSONstringify([title |-> "", url |-> H,
                      pages |-> f.finished["handbook_staging"]])
  /\ st["direction"].content =
       JSONstringify([title |-> "", url |-> D,
                      pages |-> f.finished["direction_staging"]])

\* C1: while a staged refresh runs, the production records 'handbook' and
\* 'direction' are both what they were when the refresh began, or both the
\* complete page sequences of the two finished crawls; never one promoted
\* and the other not, never a partially crawled page sequence.
C1_ProductionOldOrNew ==
  \A c \in Callers :
    Active(c) =>
      \/ Production(store) = frame[c].before
      \/ PromotedFrom(store, frame[c])

\* C1 witness: a refresh has replaced an earlier production pair by a
\* three-page handbook snapshot that was flushed in two batches.
C1_Witness ==
  \E c \in Callers :
    /\ Active(c)
    /\ frame[c].before = OldProduction
    /\ PromotedFrom(store, frame[c])
    /\ Len(frame[c].finished["handbook_staging"]) = 3
    /\ Production(store) # frame[c].before

\* C2: when a store operation fails anywhere in a staged refresh, the
\* production records are, when the refresh ends, what they were before
\* the refresh began.
C2_FailureKeepsProduction ==
  [][\A c \in Callers :
       (Completes(c) /\ frame[c].error # Null) =>
         /\ Production(store) = frame[c].before
         /\ Production(store') = frame[c].before]_vars

\* C2 witness: the store failed during the second crawl, after the first
\* source finished staging two or more pages, with production present.
C2_Witness ==
  \E c \in Callers :
    /\ frame[c].pc = "cleanup"
    /\ frame[c].siteIdx = 2
    /\ "handbook_staging" \in DOMAIN frame[c].finished
    /\ Len(frame[c].finished["handbook_staging"]) >= 2
    /\ frame[c].before = OldProduction

\* C3: at most one crawl-and-swap sequence is active at any time, and a
\* call made while one is active returns the already-running outcome
\* while a call made when none is active is accepted.
C3_AtMostOneRefresh ==
  /\ [](Cardinality({c \in Callers : Active(c)}) <= 1)
  /\ [][\A c \in Callers :
          Calls(c) =>
            IF \E d \in Callers : Active(d)
              THEN /\ frame'[c].pc = "done"
                   /\ frame'[c].result = Some(AlreadyRunningResult)
              ELSE Active(c)']_vars

\* C3 witness: a request was rejected while the startup refresh is active.
C3_Witness ==
  \E c, d \in Callers :
    /\ c # d
    /\ Active(c)
    /\ frame[d].result = Some(AlreadyRunningResult)

\* C4: a call made while isRefreshing is true changes nothing but its own
\* return value: refreshStatus, the store, the clock and every other call
\* keep their values, and the call never runs a crawl later.
C4_RejectedCallChangesNothing ==
  /\ [][\A c \in Callers :
          (Calls(c) /\ refreshStatus.isRefreshing) =>
            /\ refreshStatus' = refreshStatus
            /\ store' = store
            /\ \A d \in Callers \ {c} : frame'[d] = frame[d]
            /\ frame'[c].pc = "done"]_vars
  /\ [][\A c \in Callers :
          frame[c].pc = "done" => frame'[c] = frame[c]]_vars

\* C4 witness: a rejected request while the refresh that was running when
\* it arrived goes on with the values the acceptance set.
C4_Witness ==
  \E c, d \in Callers :
    /\ c # d
    /\ frame[d].result = Some(AlreadyRunningResult)
    /\ frame[c].pc = "get"
    /\ refreshStatus.isRefreshing
    /\ refreshStatus.lastRefreshAttempt # Some(now)

\* C5: every accepted call eventually sets isRefreshing back to false,
\* whether scrapeGitLabData returns or throws, and it has done so in the
\* step that delivers the call's result.
C5_RefreshingEventuallyCleared ==
  /\ (\E c \in Callers : Active(c)) ~> ~refreshStatus.isRefreshing
  /\ [][\A c \in Callers :
          Completes(c) => ~refreshStatus'.isRefreshing]_vars

\* C5 witness: an accepted call has ended by throwing and the flag is clear.
C5_Witness ==
  \E c \in Callers :
    /\ frame[c].result = Some(FailureResult(StoreError))
    /\ ~refreshStatus.isRefreshing
    /\ refreshStatus.lastRefreshError = StoreError

\* C6: the response of POST /refresh-data to an accepted trigger is sent
\* while the refresh that the request started is still running.
C6_ManualResponseWhileRunning ==
  \A c \in ManualCallers :
    (frame[c].res # None /\ frame[c].result # Some(AlreadyRunningResult)) =>
      frame[c].res[1].refreshStatus.isRefreshing

\* C7: when the three fetch attempts of a source's root URL all fail with
\* ECONNRESET, the refresh ends with that source's production record as it
\* was before the refresh, lastRefreshError set and isRefreshing false.
C7_RootFetchFailureKeepsSnapshot ==
  [][\A c \in Callers : \A s \in ProductionKeys :
       (Completes(c) /\ s \in frame[c].rootReset) =>
         /\ Restrict(store', {s}) = Restrict(frame[c].before, {s})
         /\ refreshStatus'.lastRefreshError # Null
         /\ ~refreshStatus'.isRefreshing]_vars

\* Every URL of the sequence starts with the root URL.
AllUnderRoot(urls, rootUrl) ==
  \A i \in DOMAIN urls : StartsWith(urls[i], rootUrl)
PageUrls(pages) == [i \in DOMAIN pages |-> pages[i].url]
\* The document was written after the process started.
WrittenByThisRun(doc) == doc.scrapedAt >= 1
\* The pages of the staging record the crawl of frame f has written so far.
StagedPages(f) ==
  IF f.pc \notin {"idle", "init", "done"} /\ f.source \in DOMAIN store
     /\ WrittenByThisRun(store[f.source])
    THEN Pages(store[f.source]) ELSE <<>>

\* C8: in a crawl with root URL R, every URL in the queue, every URL
\* handed to the fetcher and every URL of a buffered or stored page starts
\* with R; a link whose absolute form does not is never enqueued or fetched.
C8_UrlsUnderRoot ==
  \A c \in Callers :
    LET f == frame[c] IN
    /\ AllUnderRoot(f.queue, f.rootUrl)
    /\ AllUnderRoot(f.fetched, f.rootUrl)
    /\ AllUnderRoot(PageUrls(f.currentBatch), f.rootUrl)
    /\ AllUnderRoot(PageUrls(StagedPages(f)), f.rootUrl)

\* C8 witness: the link block has run on a page that has a link to another
\* host and a link under the root, and only the latter is in the queue.
C8_Witness ==
  \E c \in Callers :
    LET f == frame[c] IN
    /\ f.pc = "loop"
    /\ f.totalPagesSaved < f.maxPages
    /\ \E i \in DOMAIN f.response.hrefs :
         /\ ~SkippedHref(f.response.hrefs[i])
         /\ ~StartsWith(Resolve(f.url, f.response.hrefs[i]), f.rootUrl)
    /\ \E i \in DOMAIN f.response.hrefs, j \in DOMAIN f.queue :
         /\ ~SkippedHref(f.response.hrefs[i])
         /\ f.queue[j] = Resolve(f.url, f.response.hrefs[i])

\* C9: within one crawl no URL is handed to the fetcher more than once.
C9_NoUrlFetchedTwice ==
  \A c \in Callers :
    \A i, j \in DOMAIN frame[c].fetched :
      frame[c].fetched[i] = frame[c].fetched[j] => i = j

\* C9 witness: the loop is about to take from the queue a second copy of a
\* URL that it has fetched before.
C9_Witness ==
  \E c \in Callers :
    LET f == frame[c] IN
    /\ f.pc = "loop"
    /\ LoopContinues(f.queue, f.totalPagesSaved, f.maxPages)
    /\ \E i \in DOMAIN f.fetched : f.fetched[i] = Head(f.queue)

\* C10: for every maxPages and batchSize, the staging record of a crawl
\* never holds more than maxPages pages, during or after the crawl.
C10_PageCeiling ==
  \A c \in Callers : Len(StagedPages(frame[c])) <= frame[c].maxPages

\* C10 witness: a crawl with maxPages = 3 and batchSize = 2 has filled its
\* staging record to the ceiling while URLs are still queued.
C10_Witness ==
  \E c \in Callers :
    LET f == frame[c] IN
    /\ f.maxPages = 3 /\ f.batchSize = 2
    /\ Len(StagedPages(f)) = 3
    /\ f.queue # <<>>

Range(s) == {s[i] : i \in DOMAIN s}

\* The retry loop of the current URL has ended without a response.
Abandoned(f) ==
  f.url # <<>> /\ f.response = NoBody /\ f.pc \notin {"sleep", "get", "backoff"}

\* A page record of the given URL is buffered, stored or counted as accepted.
HasRecord(f, url) ==
  \E p \in Range(f.currentBatch) \cup Range(f.accepted)
           \cup Range(StagedPages(f)) : p.url = url

\* C11: a URL whose every fetch raises a hang-up or network error is handed
\* to axios.get exactly three times; it is then given up without a page
\* record, and the crawl goes back to the loop head with its queue as it was.
C11_TransientGivenUpAfterThree ==
  /\ [](\A c \in Callers :
         LET f == frame[c] IN
         /\ f.pc \in {"sleep", "get", "backoff"} => f.gets < MaxAttempts
         /\ Abandoned(f) /\ f.transientOnly =>
              f.gets = MaxAttempts /\ ~HasRecord(f, f.url))
  /\ [][\A c \in Callers :
          frame[c].pc = "get" /\ Abandoned(frame'[c])
          /\ frame'[c].transientOnly =>
            /\ frame'[c].pc = "loop"
            /\ frame'[c].gets = MaxAttempts
            /\ frame'[c].queue = frame[c].queue
            /\ frame'[c].currentBatch = frame[c].currentBatch
            /\ frame'[c].totalPagesSaved = frame[c].totalPagesSaved]_vars

\* C11 witness: a URL has been given up after three transient errors and
\* the loop is about to fetch the next URL of the queue.
C11_Witness ==
  \E c \in Callers :
    LET f == frame[c] IN
    /\ f.pc = "loop" /\ Abandoned(f) /\ f.transientOnly
    /\ f.gets = MaxAttempts
    /\ LoopContinues(f.queue, f.totalPagesSaved, f.maxPages)
    /\ ~AlreadyVisited(Head(f.queue), f.visitedUrls)

\* The absolute forms of a page's hrefs in document order, without the
\* hrefs that are not links to documents.
IsUrl(u) == u # <<>>
DocumentLinks(body, url) ==
  SelectSeq([i \in DOMAIN body.hrefs |->
               IF SkippedHref(body.hrefs[i]) THEN <<>>
               ELSE Resolve(url, body.hrefs[i])], IsUrl)

\* The web of the four-page scenario: the root links to three distinct
\* URLs under it, the four pages have enough text, and every link of the
\* four pages leads to one of them.
FourPageWeb(web, root) ==
  /\ root \in DOMAIN web
  /\ LET links == DocumentLinks(web[root], root)
         four == {root} \cup Range(links)
     IN /\ Len(links) = 3 /\ Cardinality(four) = 4
        /\ \A u \in Range(links) : StartsWith(u, root)
        /\ \A p \in four :
             /\ p \in DOMAIN web /\ HasContent(web[p])
             /\ Range(DocumentLinks(web[p], p)) \subseteq four

ViewOf(prod) ==
  DataFromDB(SelectScrapedAt(FindOne(prod, "handbook")),
             SelectScrapedAt(FindOne(prod, "direction")))

\* C14: a read that overlaps a promotion returns what the production
\* records were before the promotion or what they are after it, for both
\* sources alike; never one source from before and the other from after.
C14_ReadNotTorn ==
  reader.pc = "done" =>
    \/ reader.dataFromDB = Some(ViewOf(reader.sawFirst))
    \/ reader.dataFromDB = Some(ViewOf(reader.sawSecond))

\* C16: getGitLabData reads the production records only: each document it
\* holds is the production record of its source at the moment of the read
\* (or nothing when there was none), whatever the staging records hold, and
\* what it returns is built from those two documents.
C16_ReaderSeesProductionOnly ==
  /\ reader.pc \in {"findDirection", "done"} =>
       reader.handbookDoc =
         SelectScrapedAt(FindOne(reader.sawFirst, "handbook"))
  /\ reader.pc = "done" =>
       /\ reader.directionDoc =
            SelectScrapedAt(FindOne(reader.sawSecond, "direction"))
       /\ reader.dataFromDB =
            Some(DataFromDB(reader.handbookDoc, reader.directionDoc))

\* C16 witness: a read made while a staging record held pages and the
\* database held no production record has returned "no handbook, no
\* direction".
C16_Witness ==
  /\ reader.pc = "done"
  /\ reader.sawStaged /\ reader.sawFirst = <<>> /\ reader.sawSecond = <<>>
  /\ reader.dataFromDB = Some(DataFromDB(None, None))

\* The step in which getGitLabData returns.
ReadReturns == reader.pc = "findDirection" /\ reader'.pc = "done"
\* A call of the read-triggered backgroundRefresh is running.
Scraping(f) ==
  f.pc \in {"scrapeSleep", "scrapeGet", "scrapeBackoff",
            "upsertHandbook", "upsertDirection"}

C15_RefreshNeverRejects ==
  /\ [](\A c \in Callers : ~frame[c].rejected /\ frame[c].pc # "crashed")
  /\ [][\A c \in Callers :
          Completes(c) /\ frame[c].error # Null =>
            /\ refreshStatus'.lastRefreshError = frame[c].error
            /\ frame'[c].result = Some(FailureResult(frame[c].error))
            /\ ~frame'[c].result[1].success]_vars

\* C15 witness: the startup call has ended after a store failure, with the
\* failure value as its result and the message in lastRefreshError.
C15_Witness ==
  /\ frame[StartupCaller].pc = "done"
  /\ frame[StartupCaller].result = Some(FailureResult(StoreError))
  /\ refreshStatus.lastRefreshError = StoreError
  /\ ~refreshStatus.isRefreshing

\* C17: the page records of a snapshot have pairwise different URLs,
\* whatever the web, the limits and the flushes that wrote them.
C17_SnapshotUrlsUnique ==
  \A c \in Callers :
    LET pages == StagedPages(frame[c]) IN
    \A i, j \in DOMAIN pages : pages[i].url = pages[j].url => i = j

\* C17 witness: a crawl that found the same link on several pages has
\* returned after writing four pages in four flushes.
C17_Witness ==
  \E c \in Callers :
    LET f == frame[c] IN
    /\ f.pc = "returned" /\ f.batchSize = 1
    /\ Len(StagedPages(f)) = 4
    /\ \E i, j \in DOMAIN f.queue : i # j /\ f.queue[i] = f.queue[j]

\* The step in which the retry loop gives the current URL up.
FetchFailed(c) ==
  /\ frame[c].pc = "get" /\ frame'[c].pc = "loop"
  /\ frame'[c].response = NoBody
\* The step in which a fetched page is found to have too little text.
PageSkipped(c) ==
  /\ frame[c].pc = "get" /\ frame[c].url \in DOMAIN site
  /\ frame'[c].response = site[frame[c].url]
  /\ ~HasContent(site[frame[c].url])

\* C18 as stated: when a page is skipped for too little text or its fetch
\* fails, the crawl goes back to the loop head with no record of the page
\* and with the queue as it was.
C18_NoLinksFromSkippedOrFailed ==
  [][\A c \in Callers :
       FetchFailed(c) \/ PageSkipped(c) =>
         /\ frame'[c].pc = "loop"
         /\ frame'[c].currentBatch = frame[c].currentBatch
         /\ frame'[c].queue = frame[c].queue]_vars

\* C18 as the code has it: a failed fetch leaves the queue as it was; a
\* page skipped for too little text leaves no record, but its eligible
\* links, up to five, are appended to the queue as those of an accepted
\* page are (while fewer than maxPages pages are saved).  Either way the
\* crawl goes back to the loop head.
C18_SkippedPageLinksEnqueued ==
  [][\A c \in Callers :
       LET f == frame[c] IN
       /\ FetchFailed(c) =>
            /\ frame'[c].currentBatch = f.currentBatch
            /\ frame'[c].queue = f.queue
       /\ PageSkipped(c) =>
            /\ frame'[c].pc = "loop"
            /\ frame'[c].currentBatch = f.currentBatch
            /\ frame'[c].queue =
                 IF f.totalPagesSaved < f.maxPages
                   THEN f.queue \o
                        Slice(SelectSeq(DocumentLinks(site[f.url], f.url),
                                        LAMBDA u : StartsWith(u, f.rootUrl)
                                                   /\ u \notin f.visitedUrls),
                              LinkFanOut)
                   ELSE f.queue]_vars

\* C18 witness: a page with too little text has been skipped, and its
\* link is in the queue.
C18_Witness ==
  \E c \in Callers :
    LET f == frame[c] IN
    /\ f.pc = "loop" /\ f.url \in DOMAIN site
    /\ f.response = site[f.url] /\ ~HasContent(f.response)
    /\ ~HasRecord(f, f.url)
    /\ DocumentLinks(f.response, f.url) # <<>>
    /\ f.queue # <<>>
    /\ f.queue[Len(f.queue)] = DocumentLinks(f.response, f.url)[1]

\* The step in which the link block of the current page has run.
LinkBlockRan(c) ==
  frame[c].pc \in {"get", "flushSave"} /\ frame'[c].pc = "loop"
  /\ frame'[c].response # NoBody

\* C19 as stated: the queue never holds the same URL twice.
C19_QueueHasNoDuplicates ==
  \A c \in Callers :
    \A i, j \in DOMAIN frame[c].queue :
      frame[c].queue[i] = frame[c].queue[j] => i = j

\* C19 as the code has it: the link block only appends to the queue, and
\* every URL it appends is one that has not been visited (the URL of the
\* current page counts as visited); whether the URL is already in the
\* queue is not tested.
C19_EnqueuedOnlyIfUnvisited ==
  [][\A c \in Callers :
       LinkBlockRan(c) =>
         LET old == frame[c].queue
             new == frame'[c].queue
         IN /\ Len(new) >= Len(old)
            /\ SubSeq(new, 1, Len(old)) = old
            /\ \A i \in (Len(old) + 1)..Len(new) :
                 new[i] \notin frame[c].visitedUrls]_vars

\* C19 witness: the queue holds twice a URL that has not been visited yet
\* (two pages link to it), while pages that link to visited URLs have
\* been processed.
C19_Witness ==
  \E c \in Callers :
    LET f == frame[c] IN
    /\ f.pc = "loop"
    /\ \E i, j \in DOMAIN f.queue :
         i < j /\ f.queue[i] = f.queue[j] /\ f.queue[i] \notin f.visitedUrls
    /\ \E u \in Range(DocumentLinks(f.response, f.url)) : u \in f.visitedUrls

\* The first n elements of a sequence.
FirstN(s, n) == [i \in 1..(IF Len(s) < n THEN Len(s) ELSE n) |-> s[i]]
\* The links of the current page that are under the root and not visited,
\* in document order.
EligibleInOrder(f) ==
  LET links == DocumentLinks(f.response, f.url)
      Ok(i) == StartsWith(links[i], f.rootUrl)
               /\ links[i] \notin f.visitedUrls
      RECURSIVE Upto(_)
      Upto(n) == IF n = 0 THEN <<>>
                 ELSE IF Ok(n) THEN Append(Upto(n - 1), links[n])
                 ELSE Upto(n - 1)
  IN Upto(Len(links))

\* C20: the link block of one page appends at most five URLs to the tail
\* of the queue, and what it appends is the first five of the page's
\* eligible links in document order (all of them when there are fewer);
\* it appends nothing only when there is no eligible link or the page
\* ceiling has been reached.
C20_FirstFiveLinksInOrder ==
  [][\A c \in Callers :
       LinkBlockRan(c) =>
         LET old == frame[c].queue
             new == frame'[c].queue
             added == SubSeq(new, Len(old) + 1, Len(new))
             first == FirstN(EligibleInOrder(frame'[c]), LinkFanOut)
         IN /\ Len(new) >= Len(old)
            /\ SubSeq(new, 1, Len(old)) = old
            /\ Len(added) <= LinkFanOut
            /\ IF frame'[c].totalPagesSaved < frame'[c].maxPages
                 THEN added = first ELSE added = <<>>]_vars

\* C20 witness: the link block has run on a page with seven eligible
\* links, two of them equal, and the queue holds the first five of them.
C20_Witness ==
  \E c \in Callers :
    LET f == frame[c]
        eligible == EligibleInOrder(f)
    IN /\ f.pc = "loop" /\ f.response # NoBody
       /\ Len(eligible) = 7
       /\ Len(f.queue) = 5
       /\ f.queue = FirstN(eligible, LinkFanOut)

\* The call of scrapeAndSaveSite has not ended.
Crawling(c) == frame[c].pc \notin {"idle", "done", "returned", "thrown"}

FetchIndex(f, url) == CHOOSE i \in DOMAIN f.fetched : f.fetched[i] = url

\* C22: the crawl is breadth-first.  The first URL fetched is the root;
\* the queue changes only by losing its head or by growing at its tail,
\* and the URL that goes to the fetcher is the head that was taken; the
\* page records of the snapshot are in the order in which their URLs were
\* fetched.
C22_BreadthFirst ==
  /\ [](\A c \in Callers :
         LET f == frame[c]
             pages == StagedPages(f)
         IN /\ f.fetched # <<>> => f.fetched[1] = f.rootUrl
            /\ \A i, j \in DOMAIN pages :
                 i < j => /\ pages[i].url \in Range(f.fetched)
                          /\ pages[j].url \in Range(f.fetched)
                          /\ FetchIndex(f, pages[i].url)
                               < FetchIndex(f, pages[j].url))
  /\ [][\A c \in Callers :
          LET old == frame[c].queue
              new == frame'[c].queue
          IN /\ new # old =>
                  \/ old # <<>> /\ new = Tail(old)
                  \/ Len(new) > Len(old) /\ SubSeq(new, 1, Len(old)) = old
             /\ frame[c].pc = "loop" /\ frame'[c].pc = "sleep" =>
                  old # <<>> /\ frame'[c].url = Head(old)]_vars

\* C22 witness: on the web whose second page is too short, the crawl has
\* fetched the root, its three links and then the link of the second page,
\* and has returned with the three accepted pages in that order.
C22_Witness ==
  \E c \in Callers :
    LET f == frame[c] IN
    /\ f.pc = "returned" /\ site = ShortSite
    /\ f.fetched = <<H, H \o <<"/a">>, H \o <<"/b">>,
                     H \o <<HostSuffix, "/x">>, H \o <<"/c">> >>
    /\ PageUrls(StagedPages(f)) = <<H, H \o <<"/b">>, H \o <<"/c">> >>

\* C23: an error that is neither a hang-up nor a network error ends the
\* retry loop at the attempt that raised it: the crawl goes straight back
\* to the loop head, never to the backoff sleep, with the queue and the
\* batch as they were.  When it is the first error of the URL, the URL has
\* been handed to axios.get exactly once.
C23_PermanentErrorEndsAttempts ==
  /\ [](\A c \in Callers :
         LET f == frame[c] IN
         /\ f.pc = "backoff" => ~f.permanent
         /\ Abandoned(f) /\ f.permanent =>
              /\ f.gets = f.attempt /\ f.gets <= MaxAttempts
              /\ f.url \in f.givenUp
              /\ ~HasRecord(f, f.url))
  /\ [][\A c \in Callers :
          frame[c].pc = "get" /\ frame'[c].response = NoBody
          /\ frame'[c].permanent =>
            /\ frame'[c].pc = "loop"
            /\ frame'[c].gets = frame[c].gets + 1
            /\ frame[c].attempt = 0 => frame'[c].gets = 1
            /\ frame'[c].queue = frame[c].queue
            /\ frame'[c].currentBatch = frame[c].currentBatch]_vars

\* C23 witness: a URL has been given up after a single attempt that raised
\* a permanent error, and the loop is about to fetch the next URL.
C23_Witness ==
  \E c \in Callers :
    LET f == frame[c] IN
    /\ f.pc = "loop" /\ Abandoned(f) /\ f.permanent /\ f.gets = 1
    /\ f.url # f.rootUrl
    /\ LoopContinues(f.queue, f.totalPagesSaved, f.maxPages)
    /\ ~AlreadyVisited(Head(f.queue), f.visitedUrls)

\* C24: a rejected axios.get never makes the crawl throw: the step that
\* handles it leaves the call without an error, in the retry loop or at
\* the loop head, and the status untouched; the only error a refresh ends
\* with is a store error.  A refresh that ends without a store error ends
\* as a success with lastRefreshError null, whatever its fetches did.
C24_FetchFailuresNeverThrow ==
  /\ [](\A c \in Callers : frame[c].error \in {Null, StoreError})
  /\ [][\A c \in Callers :
          /\ frame[c].pc = "get" /\ frame'[c] # frame[c]
             /\ frame'[c].response = NoBody =>
               /\ frame'[c].error = Null
               /\ frame'[c].pc \in {"backoff", "loop"}
               /\ refreshStatus' = refreshStatus
          /\ Completes(c) /\ frame[c].error = Null =>
               /\ frame'[c].result = Some(SuccessResult)
               /\ refreshStatus'.lastRefreshError = Null]_vars

\* C24 witness: a refresh during which the handbook root was given up is
\* about to end without an error, the empty handbook snapshot promoted.
C24_Witness ==
  \E c \in Callers :
    LET f == frame[c] IN
    /\ f.pc = "endSession" /\ f.error = Null
    /\ "handbook_staging" \in DOMAIN f.finished
    /\ f.finished["handbook_staging"] = <<>>
    /\ "handbook" \in DOMAIN store /\ Pages(store["handbook"]) = <<>>
    /\ refreshStatus.lastRefreshError = Null

C26_NoStagingAfterRefresh ==
  (~refreshStatus.isRefreshing /\ refreshStatus.lastRefreshAttempt # None)
    => DOMAIN store \cap StagingKeys = {}

\* The positions of a refresh inside a crawl, and inside the promotion up
\* to the commit.
CrawlPcs ==
  {"init", "loop", "sleep", "get", "backoff",
   "flushFind", "flushSave", "finalFind", "finalSave"}
PromotionPcs ==
  {"startSession", "txFindHandbook", "txFindDirection",
   "txUpsertHandbook", "txUpsertDirection", "txDelete", "txCommit"}

\* C27: no production record is written before both crawls have returned.
\* While a refresh is inside a crawl the production records are those of
\* its start and no write is held by a transaction; the promotion is
\* entered only with both crawls returned and no error; and a refresh whose
\* crawl threw reaches its catch block with production as it was and no
\* transaction begun.
C27_PromotionAfterBothCrawls ==
  \A c \in Callers :
    LET f == frame[c] IN
    /\ f.pc \in CrawlPcs =>
         /\ Production(store) = f.before
         /\ f.txn = NoTxn
         /\ f.source = "handbook_staging" => DOMAIN f.finished = {}
    /\ f.pc \in PromotionPcs =>
         /\ BothFinished(f)
         /\ f.error = Null
         /\ Production(store) = f.before
    /\ (f.pc = "cleanup" /\ ~BothFinished(f)) =>
         /\ Production(store) = f.before
         /\ f.txn = NoTxn
         /\ f.handbookStaging = None /\ f.directionStaging = None

\* C27 witness: both crawls have returned, the transaction holds the two
\* production writes and is about to commit over an earlier production pair.
C27_Witness ==
  \E c \in Callers :
    LET f == frame[c] IN
    /\ f.pc = "txCommit"
    /\ BothFinished(f)
    /\ DOMAIN f.txn.writes = ProductionKeys
    /\ f.before = OldProduction
    /\ Production(store) = OldProduction

\* C27 witness of the failure case: the store failed in the second crawl
\* and the refresh is in its catch block, the promotion not begun.
C27_WitnessFailure ==
  \E c \in Callers :
    LET f == frame[c] IN
    /\ f.pc = "cleanup" /\ f.siteIdx = 2 /\ ~BothFinished(f)
    /\ f.txn = NoTxn

\* The callers whose axios.get is awaiting its answer.
Fetching == {c \in Callers : frame[c].pc = "get"}

\* C28: at most one fetch is in flight at any time, a fetch of the second
\* source is made only after the crawl of the first source has returned,
\* and every fetch, a first attempt or a retry, is entered from the
\* politeness sleep of the same call.
C28_OneFetchAfterDelay ==
  [][/\ Cardinality(Fetching') <= 1
     /\ \A c \in Callers :
          /\ (frame'[c].pc = "get" /\ frame'[c].siteIdx = 2) =>
                "handbook_staging" \in DOMAIN frame'[c].finished
          /\ (frame'[c].pc = "get" /\ frame'[c] # frame[c]) =>
                /\ frame[c].pc = "sleep"
                /\ frame'[c].url = frame[c].url
                /\ frame'[c].attempt = frame[c].attempt]_vars

\* C28 witness: the third attempt of a URL of the second source is in
\* flight while another call of backgroundRefresh has already returned.
C28_Witness ==
  \E c \in Callers :
    /\ frame[c].pc = "get" /\ frame[c].attempt = 2 /\ frame[c].siteIdx = 2
    /\ \E d \in Callers \ {c} : frame[d].pc = "done"

\* The step in which a call of backgroundRefresh is turned away by the
\* isRefreshing guard.
Rejected(c) == Calls(c) /\ refreshStatus.isRefreshing
\* The value backgroundRefresh has returned to c after the step.
ResultAfter(c) == frame'[c].result[1]

C30_ConfinementByPrefix ==
  [][\A c \in Callers :
       /\ \A u \in Range(frame'[c].fetched) : StartsWith(u, frame'[c].rootUrl)
       /\ LinkBlockRan(c) =>
            LET f == frame'[c]
                added == SubSeq(f.queue, Len(frame[c].queue) + 1, Len(f.queue))
                links == Range(DocumentLinks(f.response, f.url))
            IN /\ \A u \in links :
                    ~StartsWith(u, f.rootUrl) => u \notin Range(added)
               /\ \A u \in links :
                    ( /\ StartsWith(u, f.rootUrl)
                      /\ u \notin f.visitedUrls
                      /\ Len(EligibleInOrder(f)) <= LinkFanOut
                      /\ f.totalPagesSaved < f.maxPages )
                    => u \in Range(added)]_vars

\* C30 witness: the crawl of https://handbook.gitlab.com has fetched a URL
\* of the host handbook.gitlab.com.example.net that a page linked to.
C30_Witness ==
  \E c \in Callers :
    LET f == frame[c]
        u == H \o <<HostSuffix, "/x">>
    IN /\ f.rootUrl = H
       /\ Origin(u) # Origin(f.rootUrl)
       /\ u \in Range(f.fetched)
       /\ f.pc = "get" /\ f.url = u

\* C30 witness of the other half: the link block has run on the root page
\* of the direction crawl, which links to a URL of its own host that does
\* not begin with the root URL, and the queue is empty.
C30_WitnessSameHost ==
  \E c \in Callers :
    LET f == frame[c] IN
    /\ f.rootUrl = D /\ f.url = D /\ f.pc = "loop"
    /\ f.response # NoBody
    /\ f.totalPagesSaved < f.maxPages
    /\ f.queue = <<>>
    /\ \E u \in Range(DocumentLinks(f.response, f.url)) :
         /\ Origin(u) = Origin(f.rootUrl)
         /\ ~StartsWith(u, f.rootUrl)
         /\ u \notin f.visitedUrls

\* The page records a crawl holds after a step: buffered, read back for a
\* flush, and stored under its staging source once that has been reset.
RecordsHeld(f, st) ==
  Range(f.currentBatch) \cup Range(f.existingData.pages) \cup
  (IF f.pc \in (CrawlPcs \ {"init"}) \cup {"returned"} /\ f.source \in DOMAIN st
     THEN Range(Pages(st[f.source])) ELSE {})

\* C31: every page record of a crawl is of a fetched page whose text is
\* longer than 100 characters and holds at most 5000 characters of it (the
\* first 5000 when the text is longer); a fetched page of at most 100
\* characters leaves no record, and the crawl goes on with the loop.
C31_RecordsOfLongEnoughPages ==
  [][\A c \in Callers :
       /\ \A p \in RecordsHeld(frame'[c], store') :
            /\ p.url \in DOMAIN site
            /\ site[p.url].textLen > MinTextLength
            /\ p.text <= MaxTextLength
            /\ p.text = IF site[p.url].textLen > MaxTextLength
                          THEN MaxTextLength ELSE site[p.url].textLen
       /\ PageSkipped(c) =>
            /\ site[frame[c].url].textLen <= MinTextLength
            /\ frame'[c].pc = "loop" /\ frame'[c].error = Null
            /\ frame'[c].currentBatch = frame[c].currentBatch
            /\ frame'[c].accepted = frame[c].accepted]_vars

\* C31 witness: a crawl has returned in which a page of exactly 100
\* characters was fetched and left out, and a page fetched after it is
\* stored.
C31_Witness ==
  \E c \in Callers, short \in DOMAIN site :
    LET f == frame[c] IN
    /\ f.pc = "returned"
    /\ site[short].textLen = MinTextLength
    /\ short \in Range(f.fetched)
    /\ \A p \in Range(Pages(store[f.source])) : p.url # short
    /\ \E p \in Range(Pages(store[f.source])) :
         FetchIndex(f, p.url) > FetchIndex(f, short)

\* C31 witness of the truncation: a page of 6000 characters is stored with
\* 5000 of them.
C31_WitnessTruncated ==
  \E c \in Callers :
    LET f == frame[c] IN
    /\ f.pc = "returned"
    /\ \E p \in Range(Pages(store[f.source])) :
         site[p.url].textLen > MaxTextLength /\ p.text = MaxTextLength

\* C32: the backoff sleep after the n-th failed attempt of a URL lasts
\* 1500 * n milliseconds: 1500 after the first failure, 3000 after the
\* second, each longer than the one before.  It is entered only from a
\* failed fetch with a hang-up or network error, and never after the
\* third failure or after another error: the crawl goes to the next URL
\* with no sleep in progress.
C32_BackoffGrowsWithFailures ==
  [][\A c \in Callers :
       LET f == frame[c]
           g == frame'[c]
       IN /\ g.pc = "backoff" =>
               /\ g.gets \in 1..(MaxAttempts - 1)
               /\ g.delay = 1500 * g.gets
               /\ g.gets > 1 => g.delay > 1500 * (g.gets - 1)
               /\ ~g.permanent
          /\ g.pc # "backoff" => g.delay = 0
          /\ (g.pc = "backoff" /\ f.pc # "backoff") =>
               f.pc = "get" /\ g.url = f.url /\ g.gets = f.gets + 1
          /\ (f.pc = "get" /\ g # f /\ g.response = NoBody) =>
               IF g.gets = MaxAttempts \/ g.permanent
                 THEN g.pc = "loop" ELSE g.pc = "backoff"]_vars

\* C32 witness: the sleep after the second failed attempt of a URL is in
\* progress, 3000 milliseconds long.
C32_Witness ==
  \E c \in Callers :
    /\ frame[c].pc = "backoff" /\ frame[c].gets = 2
    /\ frame[c].delay = 3000

\* C33: a crawl that accepted no page returns like any other and leaves a
\* staging record with an empty page sequence, and the commit of the
\* promotion puts an empty page sequence in the production record of that
\* source, whatever it held before; the refresh ends without an error.
C33_EmptySnapshotPromoted ==
  [][\A c \in Callers :
       LET f == frame[c]
           g == frame'[c]
       IN /\ g.pc \in CrawlPcs \cup PromotionPcs =>
               \A k \in DOMAIN g.finished :
                 g.finished[k] = <<>> =>
                   k \in DOMAIN store' /\ Pages(store'[k]) = <<>>
          /\ (f.pc = "txCommit" /\ g.pc = "endSession" /\ g.error = Null) =>
               \A name \in ProductionKeys :
                 f.finished[StagingSource(name)] = <<>> =>
                   /\ name \in DOMAIN store'
                   /\ Pages(store'[name]) = <<>>
                   /\ store'[name].content =
                        JSONstringify(EmptyData(GITLAB_SOURCES[name]))
          /\ (f.pc = "endSession" /\ f.error = Null /\ g # f) =>
               /\ g.pc = "done" /\ g.result = Some(SuccessResult)
               /\ refreshStatus'.lastRefreshError = Null]_vars

\* C33 witness: the handbook crawl accepted no page, the promotion has
\* committed, and the production record of the handbook, which held a
\* page before the refresh, has an empty page sequence.
C33_Witness ==
  \E c \in Callers :
    LET f == frame[c] IN
    /\ f.pc = "endSession" /\ f.error = Null
    /\ f.before = OldProduction
    /\ Pages(OldProduction["handbook"]) # <<>>
    /\ f.finished["handbook_staging"] = <<>>
    /\ Pages(store["handbook"]) = <<>>

\* C33 witness of the other case: a crawl whose every page was fetched and
\* skipped has returned, and its staging record has an empty page sequence.
C33_WitnessSkipped ==
  \E c \in Callers :
    LET f == frame[c] IN
    /\ f.pc = "returned" /\ f.accepted = <<>> /\ f.givenUp = {}
    /\ Len(f.fetched) = 2
    /\ Pages(store[f.source]) = <<>>

\* The accepted calls of backgroundRefresh that have not completed.
ActiveCalls == {c \in Callers : Active(c)}

\* C34: isRefreshing is true exactly when one accepted call is between its
\* acceptance and its completion; there are never two such calls, and
\* with none the flag is false.
C34_FlagIffOneActive ==
  /\ Cardinality(ActiveCalls) <= 1
  /\ refreshStatus.isRefreshing <=> Cardinality(ActiveCalls) = 1
  /\ ActiveCalls = {} => ~refreshStatus.isRefreshing

\* C34 witness: the flag is true for a second refresh, after a first one
\* was accepted and has completed.
C34_Witness ==
  \E c, d \in Callers :
    /\ Active(c) /\ refreshStatus.isRefreshing
    /\ frame[d].pc = "done"
    /\ frame[d].result # Some(AlreadyRunningResult)

\* C35: the acceptance of a call sets lastRefreshError to null; the
\* completion of a call sets it to the message of the error
\* scrapeGitLabData threw and leaves it null when it returned; and while no
\* refresh is active it does not change.  So with no refresh active it is
\* non-null exactly when the refresh accepted last ended by throwing.
C35_LastErrorOfLatestRefresh ==
  [][/\ \A c \in Callers :
          /\ (Calls(c) /\ ~refreshStatus.isRefreshing) =>
               refreshStatus'.lastRefreshError = Null
          /\ Active(c) /\ ~Completes(c) =>
               refreshStatus'.lastRefreshError = Null
          /\ Completes(c) =>
               /\ refreshStatus.lastRefreshError = Null
               /\ refreshStatus'.lastRefreshError = frame[c].error
               /\ refreshStatus'.lastRefreshError # Null
                    <=> frame'[c].result # Some(SuccessResult)
     /\ (ActiveCalls = {} /\ ActiveCalls' = {}) =>
          refreshStatus'.lastRefreshError = refreshStatus.lastRefreshError]_vars

\* C35 witness: one refresh has failed and one has succeeded, and
\* lastRefreshError is null: the successful one was the later one.
C35_Witness ==
  \E c, d \in Callers :
    /\ frame[c].pc = "done" /\ frame[d].pc = "done"
    /\ frame[d].result = Some(FailureResult(StoreError))
    /\ frame[c].result = Some(SuccessResult)
    /\ refreshStatus.lastRefreshError = Null
    /\ ~refreshStatus.isRefreshing

\* s is an initial segment of t.
IsPrefix(s, t) == Len(s) <= Len(t) /\ SubSeq(t, 1, Len(s)) = s

\* C36: the first store operation of a crawl replaces the staging record
\* of its source, whatever it held, by one with an empty page sequence.
\* From then on the record holds pages this crawl accepted and no others,
\* the records the transaction reads hold the pages of the two crawls of
\* this refresh, and so does what the commit puts in production.
C36_LeftoverStagingNeverUsed ==
  [][\A c \in Callers :
       LET f == frame[c]
           g == frame'[c]
       IN /\ (f.pc = "init" /\ g.pc = "loop") =>
               store'[f.source] =
                 Doc(JSONstringify(EmptyData(f.rootUrl)), now)
          /\ g.pc \in CrawlPcs \ {"init"} =>
               /\ g.source \in DOMAIN store'
               /\ IsPrefix(Pages(store'[g.source]), g.accepted)
               /\ IsPrefix(g.existingData.pages, g.accepted)
          /\ g.pc \in PromotionPcs =>
               \A k \in StagingKeys :
                 k \in DOMAIN store' /\ Pages(store'[k]) = g.finished[k]
          /\ (f.pc = "txCommit" /\ g.pc = "endSession" /\ g.error = Null) =>
               PromotedFrom(store', f)]_vars

\* C36 witness: the database held staging records of an earlier refresh;
\* the handbook crawl has replaced its record and stored a page in it,
\* while the record of the direction source is still the earlier one.
C36_Witness ==
  \E c \in Callers :
    LET f == frame[c] IN
    /\ f.pc = "loop" /\ f.source = "handbook_staging"
    /\ "direction_staging" \in DOMAIN store
    /\ store["direction_staging"] = LeftoverStaging["direction_staging"]
    /\ Pages(LeftoverStaging["handbook_staging"]) # <<>>
    /\ Pages(store["handbook_staging"]) # <<>>
    /\ \A p \in Range(Pages(store["handbook_staging"])) :
         p \notin Range(Pages(LeftoverStaging["handbook_staging"]))

\* C37, the records: in the direct-write variant the collection changes
\* only by the two upserts of a refresh.  Until the first upsert, which follows the return
\* of both crawls, the production records are those of the start of the
\* refresh; between the upserts the handbook record holds the new
\* snapshot and the direction record is the old one; the second upsert
\* replaces the direction record alone; and when an upsert fails the
\* collection stays as it is, with lastRefreshError set.
C37_DirectWriteOrder ==
  [][/\ \A c \in ReadCallers :
          LET f == frame[c]
              g == frame'[c]
          IN /\ g.pc \in {"scrapeSleep", "scrapeGet", "scrapeBackoff",
                          "upsertHandbook"} =>
                  Production(store') = g.before
             /\ g.pc \in {"upsertHandbook", "upsertDirection"} =>
                  g.handbookData # None /\ g.directionData # None
             /\ g.pc = "upsertDirection" =>
                  /\ "handbook" \in DOMAIN store'
                  /\ store'["handbook"].content =
                       JSONstringify(g.handbookData[1])
                  /\ Restrict(store', {"direction"}) =
                       Restrict(g.before, {"direction"})
             /\ (f.pc = "upsertDirection" /\ g.pc = "done") =>
                  \/ /\ store' = store
                     /\ refreshStatus'.lastRefreshError # Null
                  \/ /\ store'["direction"].content =
                          JSONstringify(f.directionData[1])
                     /\ store'["handbook"] = store["handbook"]
                     /\ DOMAIN store' = ProductionKeys
                     /\ refreshStatus'.lastRefreshError = Null
             /\ (f.pc = "upsertHandbook" /\ g.pc = "done") =>
                  /\ store' = store
                  /\ refreshStatus'.lastRefreshError # Null
     /\ store' # store =>
          \E c \in ReadCallers :
            frame[c].pc \in {"upsertHandbook", "upsertDirection"}
            /\ frame'[c] # frame[c]]_vars

\* The mixed state persists: the second upsert of a refresh has failed; the handbook
\* record is the new snapshot, the direction record the one of before,
\* and no refresh is running.
C37_MixedStatePersists ==
  \E c \in ReadCallers :
    /\ frame[c].pc = "done"
    /\ ~refreshStatus.isRefreshing
    /\ refreshStatus.lastRefreshError = StoreError
    /\ DOMAIN store = ProductionKeys
    /\ store["direction"] = OldProduction["direction"]
    /\ store["handbook"] # OldProduction["handbook"]
    /\ Pages(store["handbook"]) # <<>>

\* The two records as one findOne of each would return them.
RecordsOf(prod) ==
  [handbook |-> FindOne(prod, "handbook"),
   direction |-> FindOne(prod, "direction")]

\* C37: what a reader observes of the two production records is both old,
\* both new, or a new handbook with an old direction, which are the states
\* the records go through: the two documents a call of getGitLabData
\* returns are the records as they were together at one of its two reads,
\* never an old handbook with a new direction.
C37_ReaderSeesAStateOfTheRecords ==
  (reader.variant = "direct" /\ reader.pc = "done") =>
    LET seen == [handbook |-> reader.handbookDoc,
                 direction |-> reader.directionDoc]
    IN seen = RecordsOf(reader.sawFirst) \/ seen = RecordsOf(reader.sawSecond)

\* C38: in the staged variant a step of getGitLabData changes nothing but
\* its own locals: the four fields of refreshStatus, the collection and
\* every call of backgroundRefresh are as before, also when the data it
\* read is stale or missing.  refreshStatus changes only in a step of a
\* call made by the startup callback or by POST /refresh-data, and no
\* other call of backgroundRefresh exists.
C38_ReadLeavesRefreshStateAlone ==
  [][/\ reader' # reader =>
          /\ refreshStatus' = refreshStatus
          /\ frame' = frame
          /\ store' = store
     /\ refreshStatus' # refreshStatus =>
          \E c \in Callers : frame'[c] # frame[c] /\ reader' = reader
     /\ \A c \in ReadCallers :
          frame[c].pc = "idle" /\ frame'[c].pc = "idle"]_vars

\* C38 witness: getGitLabData has returned with its staleness warning
\* logged, after the startup refresh failed; no refresh is running.
C38_Witness ==
  /\ reader.variant = "staged" /\ reader.pc = "done" /\ reader.warned
  /\ reader.dataFromDB # None
  /\ frame[StartupCaller].pc = "done"
  /\ ~refreshStatus.isRefreshing
  /\ refreshStatus.lastRefreshError # Null
  /\ \A c \in Callers \cup ReadCallers : ~Active(c)

\* The URLs that links under the root lead to from the given URLs.
RECURSIVE Reach(_, _, _)
Reach(urls, web, root) ==
  LET next == urls \cup
        {u \in UNION {Range(DocumentLinks(web[p], p)) :
                        p \in urls \cap DOMAIN web} : StartsWith(u, root)}
  IN IF next = urls THEN urls ELSE Reach(next, web, root)

\* C39: the page ceiling counts accepted pages only.  A URL whose fetch
\* failed or whose page was skipped leaves the count of saved and of
\* buffered pages as it was; a URL goes to the fetcher whenever fewer than
\* maxPages pages have been accepted, however many URLs have been fetched;
\* the accepted pages never exceed maxPages; and the URLs fetched are
\* distinct URLs that links under the root lead to from the root.
C39_CeilingCountsAcceptedOnly ==
  [][\A c \in Callers :
       LET f == frame[c]
           g == frame'[c]
       IN /\ FetchFailed(c) \/ PageSkipped(c) =>
               /\ g.totalPagesSaved = f.totalPagesSaved
               /\ g.currentBatch = f.currentBatch
               /\ g.accepted = f.accepted
               /\ Len(g.fetched) = Len(f.fetched)
          /\ g.pc \in CrawlPcs =>
               /\ g.totalPagesSaved + Len(g.currentBatch) = Len(g.accepted)
               /\ Len(g.accepted) <= g.maxPages
               /\ Range(g.fetched) \subseteq Reach({g.rootUrl}, site, g.rootUrl)
               /\ Cardinality(Range(g.fetched)) = Len(g.fetched)
          /\ (f.pc = "loop" /\ g.pc = "sleep") =>
               /\ Len(f.accepted) < f.maxPages
               /\ Len(g.fetched) = Len(f.fetched) + 1
          /\ (f.pc = "loop" /\ g.pc \notin {"loop", "sleep"} /\ g # f) =>
               f.queue = <<>> \/ Len(f.accepted) >= f.maxPages]_vars

\* C39 witness: a crawl with a ceiling of two pages has returned after
\* fetching more than two URLs, one of which failed and one of which was
\* skipped.
C39_Witness ==
  \E c \in Callers :
    LET f == frame[c] IN
    /\ f.pc = "returned" /\ f.maxPages = 2
    /\ Len(f.fetched) > f.maxPages
    /\ Len(f.accepted) = 2
    /\ f.givenUp # {}
    /\ \E u \in Range(f.fetched) \cap DOMAIN site :
         site[u].textLen <= MinTextLength

\* The loop test has passed: an iteration of the crawl loop begins.
AtIterationHead(f) ==
  f.pc = "loop" /\ f.queue # <<>> /\ f.totalPagesSaved < f.maxPages

\* C40: when an iteration of the crawl loop begins, the pages saved and
\* buffered together are fewer than maxPages and the buffered ones fewer
\* than batchSize; between iterations and while a URL is fetched the
\* buffer holds fewer than batchSize pages; and from the initialisation of
\* the staging record until the crawl returns, totalPagesSaved is the
\* number of pages in that record.
C40_LoopInvariant ==
  \A c \in Callers :
    LET f == frame[c] IN
    /\ AtIterationHead(f) =>
         /\ f.totalPagesSaved + Len(f.currentBatch) < f.maxPages
         /\ Len(f.currentBatch) < f.batchSize
    /\ f.pc \in {"loop", "sleep", "get", "backoff"} =>
         Len(f.currentBatch) < f.batchSize
    /\ f.pc \in (CrawlPcs \ {"init"}) \cup {"returned"} =>
         /\ f.source \in DOMAIN store
         /\ f.totalPagesSaved = Len(Pages(store[f.source]))

\* C40 witness: an iteration begins with two pages saved by a flush and a
\* third page in the buffer.
C40_Witness ==
  \E c \in Callers :
    LET f == frame[c] IN
    /\ AtIterationHead(f)
    /\ f.totalPagesSaved = 2 /\ Len(f.currentBatch) = 1
    /\ f.batchSize = 2 /\ f.maxPages = 4

====
